---- MODULE Spec2Model ----
(***************************************************************************)
(* Model of the storage, query and sharding core of distribuito: the       *)
(* per-node columnar table files (index, stats, one file per column), the  *)
(* insert and query paths over them, the aggregate algebra, and the        *)
(* master's fan-out and merge of peer results.                             *)
(*                                                                         *)
(* Files are modelled at entry granularity: the index file is a sequence   *)
(* of (index_id, timestamp) entries, a column file a sequence of           *)
(* (index_id, timestamp, payload) entries, the stats file a sequence of    *)
(* u64 words.  A payload keeps the encoding it was written with (i64       *)
(* bytes, f64 bytes, padded string bytes) so that reading it back through  *)
(* the column's type is a real conversion.                                 *)
(***************************************************************************)
EXTENDS Integers, Sequences, FiniteSets, TLC

(***************************************************************************)
(* Bounds of the model.                                                    *)
(***************************************************************************)
MaxIndex == 2        \* index entries per table at which inserts stop
MaxBatch == 2        \* rows in one insert request
MaxInt == 2          \* JSON integers are drawn from 1..MaxInt
MaxTime == 1         \* timestamps are drawn from 1..MaxTime
NPeers == 2          \* peers configured on the master (cluster specification)
MaxClusterRows == 2  \* index entries per node in the cluster specification
MaxNum == 4          \* integers of the aggregation specification: 1..MaxNum
MaxNumRows == 4      \* index entries per table in the aggregation specification
MaxCoreRows == 2     \* index entries per table in the single-table specification
MaxCrashRows == 3    \* index entries per table in the interrupted-insert specification
MaxNullRows == 3     \* index entries per table in the null-value specification
MaxUnionRows == 3    \* index entries of all nodes together in the row-merge specification
NClients == 2        \* clients with a request in flight at the same time
MaxSelections == 5   \* rr_unicast calls in the round-robin specification
MaxInsertRows == 4   \* rows inserted or requested in the concurrent-insert specification
MaxStepRows == 3     \* index entries in the step-by-step insert specification
MaxAggRows == 3      \* index entries of the two nodes together in the aggregation specification
MaxScanRows == 3     \* index entries in the step-by-step scan specification
MaxConserveRows == 4 \* index entries of all nodes together in the row-conservation specification
MaxRequestRows == 6  \* rows in one insert request, and index entries of all nodes, in the batch specification

(***************************************************************************)
(* Program constants.                                                      *)
(***************************************************************************)
INTEGER_VALUE_SIZE == 8
FLOAT_VALUE_SIZE == 8
STRING_VALUE_SIZE == 256
NULL_VALUE_SIZE == 0

\* Exponent of the smallest subnormal f64: the i64 bit pattern n, read as an
\* f64, is n * 2^SubnormalExp (for 0 <= n < 2^52).
SubnormalExp == 0 - 1074
\* The f64 bit pattern of a positive number m * 2^k (1 <= m < 2) is
\* (F64ExpBias + k) * 2^F64FractionBits + (m - 1) * 2^F64FractionBits.
F64ExpBias == 512 + 511
F64FractionBits == 26 + 26

NUL == "\\0"

(***************************************************************************)
(* Small helpers.                                                          *)
(***************************************************************************)
Abs(n) == IF n < 0 THEN 0 - n ELSE n

RECURSIVE Gcd(_, _)
Gcd(a, b) == IF b = 0 THEN a ELSE Gcd(b, a % b)

\* a / b on i64, rounding towards zero (b # 0).
TruncDiv(a, b) ==
    LET q == Abs(a) \div Abs(b)
    IN  IF (a < 0) = (b < 0) THEN q ELSE 0 - q

Min(a, b) == IF a <= b THEN a ELSE b

Take(s, n) == SubSeq(s, 1, Min(Len(s), n))

RECURSIVE SeqOfSet(_)
SeqOfSet(S) ==
    IF S = {} THEN <<>>
    ELSE LET x == CHOOSE y \in S : TRUE IN <<x>> \o SeqOfSet(S \ {x})

(***************************************************************************)
(* Column types and columns (table/column.rs).                             *)
(***************************************************************************)
ColumnType_size(ty) ==
    CASE ty = "Integer" -> INTEGER_VALUE_SIZE
      [] ty = "Float" -> FLOAT_VALUE_SIZE
      [] ty = "String" -> STRING_VALUE_SIZE
      [] OTHER -> NULL_VALUE_SIZE

Column(name, ty) == [name |-> name, ty |-> ty]

index_and_timestamp_size == ColumnType_size("Integer") + ColumnType_size("Integer")

(***************************************************************************)
(* ColumnValue: Integer(i64), Float(f64), String, Null.                    *)
(* A number is num/den * 2^e.  Integers have den = 1; e # 0 only for       *)
(* values that come from reading a payload through the other numeric type. *)
(* Floats are exact rationals (rounding is not modelled).                  *)
(***************************************************************************)
IntegerValue(n) == [ty |-> "Integer", num |-> n, den |-> 1, e |-> 0, s |-> <<>>]

Rational(ty, n, d, e) ==
    IF d = 0 THEN [ty |-> ty, num |-> IF n < 0 THEN 0 - 1 ELSE 1, den |-> 0, e |-> 0, s |-> <<>>]
    ELSE LET g == Gcd(Abs(n), Abs(d))
             sg == IF d < 0 THEN 0 - 1 ELSE 1
         IN  IF n = 0 THEN [ty |-> ty, num |-> 0, den |-> 1, e |-> 0, s |-> <<>>]
             ELSE [ty |-> ty, num |-> sg * (n \div g), den |-> sg * (d \div g),
                   e |-> e, s |-> <<>>]

FloatValue(n, d) == Rational("Float", n, d, 0)

StringValue(str) == [ty |-> "String", num |-> 0, den |-> 1, e |-> 0, s |-> str]

NullValue == [ty |-> "Null", num |-> 0, den |-> 1, e |-> 0, s |-> <<>>]

default_integer == IntegerValue(0)
default_float == FloatValue(0, 1)
default_string == StringValue(<<>>)

\* impl From<ColumnType> for ColumnValue
ColumnValue_from_type(ty) ==
    CASE ty = "Integer" -> default_integer
      [] ty = "Float" -> default_float
      [] ty = "String" -> default_string
      [] OTHER -> NullValue

IsZero(v) == v.num = 0

\* `a as f64` for an Integer value.
AsF64(v) == [v EXCEPT !.ty = "Float"]

\* f64 + f64.  Operands on different binary scales differ by hundreds of
\* orders of magnitude: the sum rounds to the larger one.
FloatAdd(a, b) ==
    IF a.e = b.e
    THEN Rational("Float", a.num * b.den + b.num * a.den, a.den * b.den, a.e)
    ELSE IF IsZero(a) THEN b
    ELSE IF IsZero(b) THEN a
    ELSE IF a.e > b.e THEN a ELSE b

\* f64 / f64 with b # 0.0.
FloatDiv(a, b) ==
    IF b.e = 0 THEN Rational("Float", a.num * b.den, a.den * b.num, a.e)
    ELSE IF a.e = b.e THEN Rational("Float", a.num * b.den, a.den * b.num, 0)
    ELSE Rational("Float", a.num, 0, 0)

\* An addition that takes Null for nothing: Null + b is b, a + Null is a.
ColumnValue_add_skips_null(a, b) ==
    CASE a.ty = "Integer" /\ b.ty = "Integer" ->
            IF a.e = b.e THEN [a EXCEPT !.num = a.num + b.num]
            ELSE IF a.e > b.e THEN a ELSE b
      [] a.ty = "Float" /\ b.ty = "Float" -> FloatAdd(a, b)
      [] a.ty = "Integer" /\ b.ty = "Float" -> FloatAdd(AsF64(a), b)
      [] a.ty = "Float" /\ b.ty = "Integer" -> FloatAdd(a, AsF64(b))
      [] a.ty = "Null" -> b
      [] b.ty = "Null" -> a
      [] OTHER -> NullValue

\* impl Add for ColumnValue.  Two i64 on different binary scales (one of them
\* is an f64 bit pattern): the low-order addend is below the model's
\* resolution and is dropped.
ColumnValue_add(a, b) ==
    CASE a.ty = "Integer" /\ b.ty = "Integer" ->
            IF a.e = b.e THEN [a EXCEPT !.num = a.num + b.num]
            ELSE IF a.e > b.e THEN a ELSE b
      [] a.ty = "Float" /\ b.ty = "Float" -> FloatAdd(a, b)
      [] a.ty = "Integer" /\ b.ty = "Float" -> FloatAdd(AsF64(a), b)
      [] a.ty = "Float" /\ b.ty = "Integer" -> FloatAdd(a, AsF64(b))
      [] OTHER -> NullValue

\* impl Div for ColumnValue
ColumnValue_div(a, b) ==
    CASE a.ty = "Integer" /\ b.ty = "Integer" ->
            IF IsZero(b) THEN NullValue
            ELSE IF a.e = 0 /\ b.e = 0 THEN IntegerValue(TruncDiv(a.num, b.num))
            ELSE IF b.e = 0 THEN [a EXCEPT !.num = TruncDiv(a.num, b.num)]
            ELSE IntegerValue(0)
      [] a.ty = "Float" /\ b.ty = "Float" ->
            IF IsZero(b) THEN NullValue ELSE FloatDiv(a, b)
      [] a.ty = "Integer" /\ b.ty = "Float" ->
            IF IsZero(b) THEN NullValue ELSE FloatDiv(AsF64(a), b)
      [] a.ty = "Float" /\ b.ty = "Integer" ->
            IF IsZero(b) THEN NullValue ELSE FloatDiv(a, AsF64(b))
      [] OTHER -> NullValue

(***************************************************************************)
(* serde_json::Value as far as the program inspects it: a Number that      *)
(* is_i64 ("int"), a Number that is_f64 ("real"), a Number that is neither *)
(* ("u64", above i64::MAX), a String, Null, and the remaining variants     *)
(* ("other": Bool, Array, Object).                                         *)
(***************************************************************************)
JInt(n) == [j |-> "int", num |-> n, den |-> 1, e |-> 0, s |-> <<>>]
JReal(n, d) == [j |-> "real", num |-> n, den |-> d, e |-> 0, s |-> <<>>]
JStr(str) == [j |-> "str", num |-> 0, den |-> 1, e |-> 0, s |-> str]
JNull == [j |-> "null", num |-> 0, den |-> 1, e |-> 0, s |-> <<>>]
JTrue == [j |-> "bool", num |-> 1, den |-> 1, e |-> 0, s |-> <<>>]

IsNumber(v) == v.j \in {"int", "real", "u64"}

\* impl From<ColumnValue> for serde_json::Value.  Number::from_f64 is None
\* for a non-finite f64 and the unwrap then panics ("panic").
ColumnValue_to_json(v) ==
    CASE v.ty = "Integer" -> [j |-> "int", num |-> v.num, den |-> 1, e |-> v.e, s |-> <<>>]
      [] v.ty = "Float" ->
            IF v.den = 0 THEN [j |-> "panic", num |-> 0, den |-> 1, e |-> 0, s |-> <<>>]
            ELSE [j |-> "real", num |-> v.num, den |-> v.den, e |-> v.e, s |-> <<>>]
      [] v.ty = "String" -> JStr(v.s)
      [] OTHER -> JNull

(***************************************************************************)
(* Payload bytes of a column entry, tagged with the encoding that produced *)
(* them: i64::to_le_bytes ("i64"), f64::to_le_bytes ("f64"), or the        *)
(* STRING_VALUE_SIZE-byte string buffer ("str": the bytes kept, followed   *)
(* by `pad` zero bytes).                                                   *)
(***************************************************************************)
I64Bytes(n) == [k |-> "i64", num |-> n, den |-> 1, e |-> 0, s |-> <<>>, pad |-> 0]
F64Bytes(n, d) == [k |-> "f64", num |-> n, den |-> d, e |-> 0, s |-> <<>>, pad |-> 0]

\* table.rs 399-408: the first STRING_VALUE_SIZE bytes, zero-filled.
StringBytes(str) ==
    LET kept == Take(str, ColumnType_size("String"))
    IN  [k |-> "str", num |-> 0, den |-> 1, e |-> 0, s |-> kept,
         pad |-> ColumnType_size("String") - Len(kept)]

PayloadSize(p) == IF p.k = "str" THEN Len(p.s) + p.pad ELSE 8

\* Largest k with 2^k <= n/d, for n/d >= 1.
RECURSIVE Log2Floor(_, _)
Log2Floor(n, d) == IF n < 2 * d THEN 0 ELSE 1 + Log2Floor(n, 2 * d)

\* Smallest k with n * 2^k >= d, for 0 < n/d < 1.
RECURSIVE Log2Up(_, _)
Log2Up(n, d) == IF n >= d THEN 0 ELSE 1 + Log2Up(2 * n, d)

RECURSIVE Pow2(_)
Pow2(k) == IF k = 0 THEN 1 ELSE 2 * Pow2(k - 1)

\* i64::from_le_bytes of the bytes of a positive f64 n/d whose denominator is
\* a power of two: the bit pattern as an Integer num * 2^e.
I64FromF64Bits(n, d) ==
    IF n = 0 THEN IntegerValue(0)
    ELSE LET j == Log2Floor(d, 1)
             k == IF n >= d THEN Log2Floor(n, d) ELSE 0 - Log2Up(n, d)
         IN  [ty |-> "Integer",
              num |-> (F64ExpBias - 1 + k) * Pow2(j + k) + n,
              den |-> 1, e |-> F64FractionBits - j - k, s |-> <<>>]

\* f64::from_le_bytes of the bytes of an i64 0 <= n < 2^52: a subnormal.
F64FromI64Bits(n) == Rational("Float", n, 1, SubnormalExp)

\* column.rs until_null_char
until_null_char(bytes) ==
    IF \E i \in 1..Len(bytes) : bytes[i] = NUL
    THEN SubSeq(bytes, 1, (CHOOSE i \in 1..Len(bytes) :
                              bytes[i] = NUL /\ \A h \in 1..(i - 1) : bytes[h] # NUL) - 1)
    ELSE bytes

\* impl FromDisk for ColumnValue
FromDisk(column_type, data) ==
    CASE column_type = "Integer" ->
            IF data.k = "f64" THEN I64FromF64Bits(data.num, data.den)
            ELSE IntegerValue(data.num)
      [] column_type = "Float" ->
            IF data.k = "i64" THEN F64FromI64Bits(data.num)
            ELSE FloatValue(data.num, data.den)
      [] column_type = "String" -> StringValue(until_null_char(data.s))
      [] OTHER -> NullValue

(***************************************************************************)
(* The table directory of one node.                                        *)
(*   exists   the directory exists                                         *)
(*   columns  the columns whose files <name>.<type>.dsto exist             *)
(*   index    .index.dsto: entries (index_id, timestamp)                   *)
(*   stats    .stats.dsto: u64 words (row_count, next_index)               *)
(*   data     per column, the entries (index_id, timestamp, payload)       *)
(* An absent file and an empty file are both the empty sequence.           *)
(***************************************************************************)
Schema == <<Column("c", "String"), Column("x", "Integer")>>

SchemaColumns == {Schema[i] : i \in 1..Len(Schema)}

\* Rank of a column in the derived Ord of Column (name, then type).
ColumnRank(c) == CHOOSE i \in 1..Len(Schema) : Schema[i] = c

\* A table with a Float column.
FloatSchemaColumns == {Column("f", "Float")}

NoTable ==
    [exists |-> FALSE, columns |-> {}, index |-> <<>>, stats |-> <<>>,
     data |-> [c \in SchemaColumns \cup FloatSchemaColumns |-> <<>>]]

\* TableDefinition::create had the files been created with File::create,
\* which truncates a file that exists.
TableDefinition_create_truncating(t, columns) ==
    [NoTable EXCEPT !.exists = TRUE, !.columns = t.columns \cup columns]

\* TableDefinition::create: create_dir_all, then create_file (create_new,
\* AlreadyExists is success) for the index, the stats and every column.
TableDefinition_create(t, columns) ==
    [t EXCEPT !.exists = TRUE, !.columns = @ \cup columns]

\* TableDefinition::open / get_columns: the columns found in the directory.
TableDefinition_open(t) ==
    IF t.exists THEN [ok |-> TRUE, columns |-> t.columns]
    ELSE [ok |-> FALSE, columns |-> {}]

\* io/file.rs seek_or on a file of u64 words: read word `pos`, or on
\* UnexpectedEof write `default` at the position the failed read left.
seek_or(file, pos, default) ==
    IF Len(file) > pos THEN [file |-> file, value |-> file[pos + 1]]
    ELSE [file |-> file \o <<default>>, value |-> 0]

\* TableStats::from_file
TableStats_from_file(file) ==
    LET r1 == seek_or(file, 0, 0)
        r2 == seek_or(r1.file, 1, 0)
    IN  [file |-> r2.file, row_count |-> r1.value, next_index |-> r2.value]

\* TableDefinition::load: the table handle (disk state and in-memory stats).
TableDefinition_load(t) ==
    LET st == TableStats_from_file(t.stats)
    IN  [t |-> [t EXCEPT !.exists = TRUE, !.stats = st.file],
         row_count |-> st.row_count, next_index |-> st.next_index]

\* A TableStats::increment that advances row_count alone in memory.
TableStats_increment_keeps_next_index(h) ==
    LET rc == h.row_count + 1
    IN  [h EXCEPT !.row_count = rc, !.t.stats = <<rc, rc>>]

\* TableStats::increment: both counters advance, and both persisted words are
\* written from row_count.
TableStats_increment(h) ==
    LET rc == h.row_count + 1
    IN  [h EXCEPT !.row_count = rc, !.next_index = h.next_index + 1,
                  !.t.stats = <<rc, rc>>]

\* A TableIndex::append that also persists the stats of the row it starts.
TableIndex_append_persists_stats(h, timestamp) ==
    [h EXCEPT !.t.index = Append(@, [index_id |-> h.next_index, timestamp |-> timestamp]),
              !.t.stats = <<h.row_count + 1, h.row_count + 1>>]

\* TableIndex::append
TableIndex_append(h, timestamp) ==
    [h EXCEPT !.t.index = Append(@, [index_id |-> h.next_index, timestamp |-> timestamp])]

\* Table::write_value
write_value(h, column, timestamp, data) ==
    [h EXCEPT !.t.data[column] =
        Append(@, [index_id |-> h.next_index, timestamp |-> timestamp, data |-> data])]

Ok(h) == [ok |-> TRUE, kind |-> "Ok", why |-> "Ok", h |-> h]
Err(kind, why, h) == [ok |-> FALSE, kind |-> kind, why |-> why, h |-> h]

\* An insert_value that stores an empty payload for a value that is neither
\* a number nor a string.
insert_value_stores_null(h, timestamp, column, value) ==
    IF IsNumber(value)
    THEN IF ~(column.ty = "Integer" \/ column.ty = "Float")
         THEN Err("InvalidData", "TypeMismatch", h)
         ELSE IF value.j = "int"
              THEN Ok(write_value(h, column, timestamp, I64Bytes(value.num)))
         ELSE IF value.j = "real"
              THEN Ok(write_value(h, column, timestamp, F64Bytes(value.num, value.den)))
         ELSE Err("Unsupported", "UnsupportedNumber", h)
    ELSE IF value.j = "str"
    THEN IF column.ty # "String"
         THEN Err("InvalidData", "TypeMismatch", h)
         ELSE Ok(write_value(h, column, timestamp, StringBytes(value.s)))
    ELSE Ok(write_value(h, column, timestamp,
                        [k |-> "null", num |-> 0, den |-> 1, e |-> 0, s |-> <<>>, pad |-> 0]))

\* Table::insert_value
insert_value(h, timestamp, column, value) ==
    IF IsNumber(value)
    THEN IF ~(column.ty = "Integer" \/ column.ty = "Float")
         THEN Err("InvalidData", "TypeMismatch", h)
         ELSE IF value.j = "int"
              THEN Ok(write_value(h, column, timestamp, I64Bytes(value.num)))
         ELSE IF value.j = "real"
              THEN Ok(write_value(h, column, timestamp, F64Bytes(value.num, value.den)))
         ELSE Err("Unsupported", "UnsupportedNumber", h)
    ELSE IF value.j = "str"
    THEN IF column.ty # "String"
         THEN Err("InvalidData", "TypeMismatch", h)
         ELSE Ok(write_value(h, column, timestamp, StringBytes(value.s)))
    ELSE Err("Unsupported", "UnsupportedValue", h)

\* column.rs get_column: the first available column with that name.
HasColumn(available, name) == \E c \in available : c.name = name
get_column(available, name) == CHOOSE c \in available : c.name = name

\* column.rs parse_and_validate_columns
ColumnsValid(available, names) ==
    \A i \in 1..Len(names) : HasColumn(available, names[i])
parse_and_validate_columns(available, names) ==
    [i \in 1..Len(names) |-> get_column(available, names[i])]

\* table.rs 211-218: the values of one row, zipped with the columns.
RECURSIVE InsertRowValues(_, _, _, _, _)
InsertRowValues(h, timestamp, columns, row, i) ==
    IF i > Len(row) \/ i > Len(columns) THEN Ok(h)
    ELSE LET r == insert_value(h, timestamp, columns[i], row[i])
         IN  IF r.ok THEN InsertRowValues(r.h, timestamp, columns, row, i + 1) ELSE r

\* table.rs 200-222: the loop over the rows of the request.
RECURSIVE InsertRows(_, _, _, _, _)
InsertRows(h, timestamp, columns, values, i) ==
    IF i > Len(values) THEN Ok(h)
    ELSE IF Len(values[i]) # Len(columns) THEN Err("InvalidData", "RowArity", h)
    ELSE LET r == InsertRowValues(TableIndex_append(h, timestamp), timestamp,
                                  columns, values[i], 1)
         IN  IF r.ok
             THEN InsertRows(TableStats_increment(r.h), timestamp, columns, values, i + 1)
             ELSE r

\* Table::insert had the column names been resolved only after the index
\* entry of the first row was appended.
Table_insert_late_validation(h, names, values, timestamp) ==
    IF ~ColumnsValid(h.t.columns, names)
    THEN Err("Unsupported", "UnknownColumn",
             IF Len(values) > 0 THEN TableIndex_append(h, timestamp) ELSE h)
    ELSE InsertRows(h, timestamp, parse_and_validate_columns(h.t.columns, names), values, 1)

\* Table::insert
Table_insert(h, names, values, timestamp) ==
    IF ~ColumnsValid(h.t.columns, names) THEN Err("Unsupported", "UnknownColumn", h)
    ELSE InsertRows(h, timestamp, parse_and_validate_columns(h.t.columns, names), values, 1)

(***************************************************************************)
(* Queried columns.  A select token is a sequence of lexical pieces:       *)
(* <<"x">> is the bare column x, <<"sum", "(", "x", ")">> is sum(x).       *)
(***************************************************************************)
\* str::to_lowercase on the function names that occur.
to_lowercase(str) ==
    CASE str \in {"COUNT", "Count"} -> "count"
      [] str \in {"SUM", "Sum"} -> "sum"
      [] str \in {"AVG", "Avg"} -> "avg"
      [] OTHER -> str

\* An Aggregate::from that takes an unknown function name for Sum.
Aggregate_from_unknown_is_sum(value) ==
    LET l == to_lowercase(value)
    IN  CASE l = "count" -> "Count"
          [] l = "sum" -> "Sum"
          [] l = "avg" -> "Avg"
          [] OTHER -> "Sum"

\* impl From<&str> for Aggregate
Aggregate_from(value) ==
    LET l == to_lowercase(value)
    IN  CASE l = "count" -> "Count"
          [] l = "sum" -> "Sum"
          [] l = "avg" -> "Avg"
          [] OTHER -> "Count"

\* impl From<Aggregate> for &str
Aggregate_name(a) ==
    CASE a = "Count" -> "count"
      [] a = "Sum" -> "sum"
      [] OTHER -> "avg"

Find(q, tok) ==
    IF \E i \in 1..Len(q) : q[i] = tok
    THEN CHOOSE i \in 1..Len(q) : q[i] = tok /\ \A h \in 1..(i - 1) : q[h] # tok
    ELSE 0

\* The string made of the pieces p: the piece itself when there is one, and
\* otherwise a string that names no column.
Joined(p) == IF Len(p) = 1 THEN p[1] ELSE "?"

\* column.rs try_parse_queried_column: (Option<Aggregate>, column name).
try_parse_queried_column(q) ==
    LET open == Find(q, "(")
        close == Find(q, ")")
        function == SubSeq(q, 1, open - 1)
        column == SubSeq(q, open + 1, close - 1)
    IN  IF open > 0 /\ close > 0 /\ Len(function) > 0 /\ Len(column) > 0
        THEN [aggregate |-> Aggregate_from(Joined(function)), is_aggregate |-> TRUE,
              column |-> Joined(column)]
        ELSE [aggregate |-> "None", is_aggregate |-> FALSE, column |-> Joined(q)]

AggregateColumn(aggregate, column) == [aggregate |-> aggregate, column |-> column]

\* impl From<AggregateColumn> for String: "fn(column)".
AggregateColumn_name(a) == <<Aggregate_name(a.aggregate), "(", a.column.name, ")">>

\* column.rs parse_and_validate_queried_columns: the projected columns (every
\* referenced column, aggregated ones included) and the aggregate columns.
QueriedColumnsValid(available, select) ==
    \A i \in 1..Len(select) : HasColumn(available, try_parse_queried_column(select[i]).column)

parse_and_validate_queried_columns(available, select) ==
    LET parsed == [i \in 1..Len(select) |-> try_parse_queried_column(select[i])]
        found == [i \in 1..Len(select) |-> get_column(available, parsed[i].column)]
        aggs == SelectSeq([i \in 1..Len(select) |->
                              [is |-> parsed[i].is_aggregate,
                               a |-> AggregateColumn(parsed[i].aggregate, found[i])]],
                          LAMBDA r : r.is)
    IN  [columns |-> found,
         aggregate_columns |-> [i \in 1..Len(aggs) |-> aggs[i].a]]

(***************************************************************************)
(* Cursors and row assembly (table/cursor.rs, Table::query_values).        *)
(***************************************************************************)
\* RowComponent::same_row
same_row(a, b) == a.index_id = b.index_id /\ a.timestamp = b.timestamp

\* table.rs 276-298: the loop of one column cursor for the index entry I.
\* ColumnCursor::read fails at the end of the file, and the `?` returns that
\* error from query_values.
RECURSIVE ColumnLoop(_, _, _, _)
ColumnLoop(file, ty, position, I) ==
    IF position >= Len(file)
    THEN [ok |-> FALSE, position |-> position, value |-> NullValue]
    ELSE LET E == file[position + 1]
         IN  IF same_row(E, I)
             THEN [ok |-> TRUE, position |-> position + 1, value |-> FromDisk(ty, E.data)]
             ELSE IF E.index_id > I.index_id
             THEN [ok |-> TRUE, position |-> position, value |-> NullValue]
             ELSE ColumnLoop(file, ty, position + 1, I)

\* table.rs 271-299: all column cursors, in select order, for the index entry I.
RECURSIVE RowComponents(_, _, _, _, _, _)
RowComponents(t, columns, positions, I, i, acc) ==
    IF i > Len(columns) THEN [ok |-> TRUE, positions |-> positions, values |-> acc]
    ELSE LET r == ColumnLoop(t.data[columns[i]], columns[i].ty, positions[i], I)
         IN  IF ~r.ok THEN [ok |-> FALSE, positions |-> positions, values |-> acc]
             ELSE RowComponents(t, columns, [positions EXCEPT ![i] = r.position], I, i + 1,
                                Append(acc, [column |-> columns[i], value |-> r.value]))

\* Row::from_components
Row(index_id, timestamp, values) ==
    [index_id |-> index_id, timestamp |-> timestamp, values |-> values]

\* table.rs 266-315: the loop over the index cursor.
RECURSIVE IndexLoop(_, _, _, _, _)
IndexLoop(t, columns, positions, position, rows) ==
    IF position >= Len(t.index) THEN [ok |-> TRUE, rows |-> rows]
    ELSE LET I == t.index[position + 1]
             r == RowComponents(t, columns, positions, I, 1, <<>>)
         IN  IF ~r.ok THEN [ok |-> FALSE, rows |-> <<>>]
             ELSE IndexLoop(t, columns, r.positions, position + 1,
                            Append(rows, Row(I.index_id, I.timestamp, r.values)))

\* Table::query_values
query_values(t, columns) ==
    IndexLoop(t, columns, [i \in 1..Len(columns) |-> 0], 0, <<>>)

(***************************************************************************)
(* Aggregation (table/aggregate.rs).  AggregateComponents is Count(count), *)
(* Sum(sum) or Avg{sum, count}; the field a variant lacks is Null.         *)
(***************************************************************************)
\* Aggregable::init had Avg started from Integer(0) like Count: the average
\* of Integer values would then be an Integer quotient.
Aggregable_init_integer_avg(aggregate_column) ==
    CASE aggregate_column.aggregate = "Count" -> IntegerValue(0)
      [] aggregate_column.aggregate = "Sum" -> ColumnValue_from_type(aggregate_column.column.ty)
      [] OTHER -> IntegerValue(0)

\* Aggregable::init for ColumnValue
Aggregable_init(aggregate_column) ==
    CASE aggregate_column.aggregate = "Count" -> IntegerValue(0)
      [] aggregate_column.aggregate = "Sum" -> ColumnValue_from_type(aggregate_column.column.ty)
      [] OTHER -> FloatValue(0, 1)

\* Aggregable::merge for ColumnValue
ColumnValue_merge(self, merge_op, other) ==
    IF merge_op = "Count" THEN ColumnValue_add(self, IntegerValue(1))
    ELSE ColumnValue_add(self, other)

\* AggregateComponents::new
AggregateComponents_new(aggregate_column) ==
    CASE aggregate_column.aggregate = "Count" ->
            [variant |-> "Count", sum |-> NullValue, count |-> Aggregable_init(aggregate_column)]
      [] aggregate_column.aggregate = "Sum" ->
            [variant |-> "Sum", sum |-> Aggregable_init(aggregate_column), count |-> NullValue]
      [] OTHER ->
            [variant |-> "Avg", sum |-> Aggregable_init(aggregate_column),
             count |-> Aggregable_init(aggregate_column)]

\* AggregateComponents::from_components_array (remove(0) panics on an empty
\* vector: "Panic").
AggregateComponents_from_components_array(aggregate_column, components) ==
    CASE aggregate_column.aggregate = "Count" /\ Len(components) >= 1 ->
            [variant |-> "Count", sum |-> NullValue, count |-> components[1]]
      [] aggregate_column.aggregate = "Sum" /\ Len(components) >= 1 ->
            [variant |-> "Sum", sum |-> components[1], count |-> NullValue]
      [] aggregate_column.aggregate = "Avg" /\ Len(components) >= 2 ->
            [variant |-> "Avg", sum |-> components[1], count |-> components[2]]
      [] OTHER -> [variant |-> "Panic", sum |-> NullValue, count |-> NullValue]

\* AggregateComponents::aggregate: fold one row value in.
AggregateComponents_aggregate(self, value) ==
    CASE self.variant = "Count" ->
            [self EXCEPT !.count = ColumnValue_merge(@, "Count", value)]
      [] self.variant = "Sum" ->
            [self EXCEPT !.sum = ColumnValue_merge(@, "Sum", value)]
      [] OTHER ->
            [self EXCEPT !.sum = ColumnValue_merge(@, "Sum", value),
                         !.count = ColumnValue_merge(@, "Count", value)]

\* An AggregateComponents::merge that combines the counts with the per-row
\* fold (MergeOp::Count).
AggregateComponents_merge_counts_rows(self, other) ==
    CASE self.variant = "Count" /\ other.variant = "Count" ->
            [self EXCEPT !.count = ColumnValue_merge(@, "Count", other.count)]
      [] self.variant = "Sum" /\ other.variant = "Sum" ->
            [self EXCEPT !.sum = ColumnValue_merge(@, "Sum", other.sum)]
      [] self.variant = "Avg" /\ other.variant = "Avg" ->
            [self EXCEPT !.sum = ColumnValue_merge(@, "Sum", other.sum),
                         !.count = ColumnValue_merge(@, "Count", other.count)]
      [] OTHER -> self

\* AggregateComponents::merge: combine two partial states.
AggregateComponents_merge(self, other) ==
    CASE self.variant = "Count" /\ other.variant = "Count" ->
            [self EXCEPT !.count = ColumnValue_merge(@, "Sum", other.count)]
      [] self.variant = "Sum" /\ other.variant = "Sum" ->
            [self EXCEPT !.sum = ColumnValue_merge(@, "Sum", other.sum)]
      [] self.variant = "Avg" /\ other.variant = "Avg" ->
            [self EXCEPT !.sum = ColumnValue_merge(@, "Sum", other.sum),
                         !.count = ColumnValue_merge(@, "Sum", other.count)]
      [] OTHER -> self

\* AggregateComponents::compute: (value, components).
AggregateComponents_compute(self) ==
    CASE self.variant = "Count" -> [value |-> self.count, components |-> <<self.count>>]
      [] self.variant = "Sum" -> [value |-> self.sum, components |-> <<self.sum>>]
      [] OTHER -> [value |-> ColumnValue_div(self.sum, self.count),
                   components |-> <<self.sum, self.count>>]

\* GroupValue::new
GroupValue_new(aggregate_columns) ==
    [i \in 1..Len(aggregate_columns) |->
        [column |-> aggregate_columns[i],
         components |-> AggregateComponents_new(aggregate_columns[i])]]

\* GroupValue::from_aggregates
GroupValue_from_aggregates(aggregates) ==
    [i \in 1..Len(aggregates) |->
        [column |-> aggregates[i].column,
         components |-> AggregateComponents_from_components_array(
                            aggregates[i].column, aggregates[i].components)]]

\* Row::value: the value of the first component of that column.
Row_has_value(row, column) == \E i \in 1..Len(row.values) : row.values[i].column = column
Row_value(row, column) ==
    row.values[CHOOSE i \in 1..Len(row.values) :
                  /\ row.values[i].column = column
                  /\ \A h \in 1..(i - 1) : row.values[h].column # column].value

\* GroupValue::add
GroupValue_add(self, row) ==
    [i \in 1..Len(self) |->
        IF Row_has_value(row, self[i].column.column)
        THEN [self[i] EXCEPT !.components =
                 AggregateComponents_aggregate(@, Row_value(row, self[i].column.column))]
        ELSE self[i]]

\* GroupValue::merge: every aggregate of self takes (and removes) the first
\* remaining aggregate of other for the same AggregateColumn, so the n-th
\* occurrence of a column in self meets its n-th occurrence in other.
Occurrences(gv, column, upto) ==
    {k \in 1..Min(upto, Len(gv)) : gv[k].column = column}

GroupValue_merge(self, other) ==
    [i \in 1..Len(self) |->
        LET n == Cardinality(Occurrences(self, self[i].column, i))
            match == {k \in 1..Len(other) :
                         /\ other[k].column = self[i].column
                         /\ Cardinality(Occurrences(other, self[i].column, k)) = n}
        IN  IF match # {}
            THEN [self[i] EXCEPT !.components =
                     AggregateComponents_merge(@, other[CHOOSE k \in match : TRUE].components)]
            ELSE self[i]]

\* Row::group: the components of the row whose column is a group-by column.
Row_group(row, group_by_columns) ==
    {row.values[i] : i \in {k \in 1..Len(row.values) :
                               \E g \in 1..Len(group_by_columns) :
                                   group_by_columns[g] = row.values[k].column}}

\* The elements of a GroupKey (a BTreeSet) in iteration order.
RECURSIVE GroupKey_into_iter(_)
GroupKey_into_iter(key) ==
    IF key = {} THEN <<>>
    ELSE LET first == CHOOSE p \in key :
                          \A q \in key : ColumnRank(p.column) <= ColumnRank(q.column)
         IN  <<first>> \o GroupKey_into_iter(key \ {first})

\* AggregatedRow::from_group
AggregatedRow_from_group(group_key, group_value) ==
    [values |-> GroupKey_into_iter(group_key),
     aggregates |-> [i \in 1..Len(group_value) |->
                        LET c == AggregateComponents_compute(group_value[i].components)
                        IN  [column |-> group_value[i].column, value |-> c.value,
                             components |-> c.components]]]

\* table.rs 324-332: fold the rows into the map group key -> GroupValue.
RECURSIVE FoldGroups(_, _, _, _, _)
FoldGroups(groups, rows, i, aggregate_columns, group_by_columns) ==
    IF i > Len(rows) THEN groups
    ELSE LET key == Row_group(rows[i], group_by_columns)
             old == IF key \in DOMAIN groups THEN groups[key]
                    ELSE GroupValue_new(aggregate_columns)
             new == GroupValue_add(old, rows[i])
         IN  FoldGroups([k \in DOMAIN groups \cup {key} |-> IF k = key THEN new ELSE groups[k]],
                        rows, i + 1, aggregate_columns, group_by_columns)

EmptyGroups == [k \in {} |-> <<>>]

\* Table::aggregate_rows.  The rows come out in the iteration order of a
\* HashMap: the result is the set of aggregated rows.
aggregate_rows(rows, aggregate_columns, group_by_columns) ==
    LET groups == FoldGroups(EmptyGroups, rows, 1, aggregate_columns, group_by_columns)
    IN  {AggregatedRow_from_group(k, groups[k]) : k \in DOMAIN groups}

QueryRows(rows) == [ok |-> TRUE, variant |-> "Rows", rows |-> rows, aggregated |-> {}]
QueryAggregatedRows(a) == [ok |-> TRUE, variant |-> "AggregatedRows", rows |-> <<>>, aggregated |-> a]
QueryErr == [ok |-> FALSE, variant |-> "Err", rows |-> <<>>, aggregated |-> {}]

\* Table::query.  group_by is the list of names, <<>> for None.
Table_query(t, select, group_by) ==
    IF ~QueriedColumnsValid(t.columns, select) THEN QueryErr
    ELSE IF ~ColumnsValid(t.columns, group_by) THEN QueryErr
    ELSE LET q == parse_and_validate_queried_columns(t.columns, select)
             group_by_columns == parse_and_validate_columns(t.columns, group_by)
             r == query_values(t, q.columns)
         IN  IF ~r.ok THEN QueryErr
             ELSE IF Len(q.aggregate_columns) = 0 THEN QueryRows(r.rows)
             ELSE QueryAggregatedRows(
                      aggregate_rows(r.rows, q.aggregate_columns, group_by_columns))

(***************************************************************************)
(* Cross-shard merge (QueryResult::merge).                                 *)
(***************************************************************************)
\* A merge that keeps of the right rows only those the left rows lack.
merge_rows_set_union(left, right) ==
    left \o SelectSeq(right, LAMBDA r : \A i \in 1..Len(left) : left[i] # r)

\* QueryResult::merge_rows
merge_rows(left, right) == left \o right

\* AggregatedRow::to_group: the group key and the GroupValue rebuilt from the
\* components arrays.
AggregatedRow_to_group(row) ==
    [key |-> {row.values[i] : i \in 1..Len(row.values)},
     value |-> GroupValue_from_aggregates(row.aggregates)]

\* table.rs 472-494: insert or merge the groups of the rows into the map.
RECURSIVE MergeGroups(_, _)
MergeGroups(groups, rows) ==
    IF rows = {} THEN groups
    ELSE LET row == CHOOSE r \in rows : TRUE
             g == AggregatedRow_to_group(row)
             new == IF g.key \in DOMAIN groups THEN GroupValue_merge(groups[g.key], g.value)
                    ELSE g.value
         IN  MergeGroups([k \in DOMAIN groups \cup {g.key} |->
                             IF k = g.key THEN new ELSE groups[k]],
                         rows \ {row})

\* QueryResult::merge_aggregated_rows
merge_aggregated_rows(left, right) ==
    LET groups == MergeGroups(MergeGroups(EmptyGroups, left), right)
    IN  {AggregatedRow_from_group(k, groups[k]) : k \in DOMAIN groups}

\* A merge that answers mixed variants with its left operand.
QueryResult_merge_keeps_left(self, other) ==
    CASE self.variant = "Rows" /\ other.variant = "Rows" ->
            QueryRows(merge_rows(self.rows, other.rows))
      [] self.variant = "AggregatedRows" /\ other.variant = "AggregatedRows" ->
            QueryAggregatedRows(merge_aggregated_rows(self.aggregated, other.aggregated))
      [] OTHER -> self

\* QueryResult::merge
QueryResult_merge(self, other) ==
    CASE self.variant = "Rows" /\ other.variant = "Rows" ->
            QueryRows(merge_rows(self.rows, other.rows))
      [] self.variant = "AggregatedRows" /\ other.variant = "AggregatedRows" ->
            QueryAggregatedRows(merge_aggregated_rows(self.aggregated, other.aggregated))
      [] OTHER -> QueryErr

\* QueryResult::is_empty
QueryResult_is_empty(self) ==
    IF self.variant = "Rows" THEN Len(self.rows) = 0 ELSE self.aggregated = {}

(***************************************************************************)
(* Wire model (transport/api.rs).  A QueryResponse is Empty, WithData or   *)
(* WithAggregatedData; "Panic" stands for a handler that panicked while    *)
(* building it (the peer's caller then sees a failed call).  The parallel  *)
(* arrays data/aggregates of an aggregated response are the set of their   *)
(* (data row, aggregates row) pairs.                                       *)
(***************************************************************************)
WireColumn(name, ty, source_ty) == [name |-> name, ty |-> ty, source_ty |-> source_ty]

\* impl From<TableColumn> for Column
WireColumn_from(column) == WireColumn(<<column.name>>, column.ty, "None")

\* impl From<Column> for TableColumn
TableColumn_from(column) == Column(Joined(column.name), column.ty)

Response(kind, columns, aggregate_columns, data, aggregated) ==
    [kind |-> kind, columns |-> columns, aggregate_columns |-> aggregate_columns,
     data |-> data, aggregated |-> aggregated]

\* QueryResponse::empty
QueryResponse_empty == Response("Empty", <<>>, <<>>, <<>>, {})

ResponsePanic == Response("Panic", <<>>, <<>>, <<>>, {})

\* api.rs serialize_rows / serialize_rows_data: rows[0] panics on no rows.
serialize_rows(rows) ==
    IF Len(rows) = 0 THEN ResponsePanic
    ELSE Response("WithData",
                  [i \in 1..Len(rows[1].values) |-> WireColumn_from(rows[1].values[i].column)],
                  <<>>,
                  [r \in 1..Len(rows) |->
                      [i \in 1..Len(rows[r].values) |->
                          ColumnValue_to_json(rows[r].values[i].value)]],
                  {})

\* api.rs serialize_aggregated_rows / serialize_aggregated_rows_data.
\* first_row is aggregated_rows[0], the first row in the order the HashMap
\* produced; the vector is empty (and the index panics) when there is none.
serialize_aggregated_rows(aggregated_rows, first_row) ==
    IF aggregated_rows = {} THEN ResponsePanic
    ELSE Response("WithAggregatedData",
                  [i \in 1..Len(first_row.values) |-> WireColumn_from(first_row.values[i].column)],
                  [i \in 1..Len(first_row.aggregates) |->
                      WireColumn(AggregateColumn_name(first_row.aggregates[i].column),
                                 first_row.aggregates[i].value.ty,
                                 first_row.aggregates[i].column.column.ty)],
                  <<>>,
                  {[data |-> [i \in 1..Len(row.values) |-> ColumnValue_to_json(row.values[i].value)],
                    aggregates |-> [i \in 1..Len(row.aggregates) |->
                        [value |-> ColumnValue_to_json(row.aggregates[i].value),
                         components |-> [k \in 1..Len(row.aggregates[i].components) |->
                             ColumnValue_to_json(row.aggregates[i].components[k])]]]]
                   : row \in aggregated_rows})

\* The rows that can be aggregated_rows[0].
FirstRows(query_result) ==
    IF query_result.variant = "AggregatedRows" /\ query_result.aggregated # {}
    THEN query_result.aggregated
    ELSE {[values |-> <<>>, aggregates |-> <<>>]}

\* api.rs serialize_query_result
serialize_query_result(query_result, first_row) ==
    IF query_result.variant = "Rows" THEN serialize_rows(query_result.rows)
    ELSE serialize_aggregated_rows(query_result.aggregated, first_row)

\* QueryResponse::build_column_and_column_value
build_column_and_column_value(column, value) ==
    [column |-> TableColumn_from(column),
     value |->
        CASE column.ty = "Integer" /\ value.j = "int" ->
                [ty |-> "Integer", num |-> value.num, den |-> 1, e |-> value.e, s |-> <<>>]
          [] column.ty = "Float" /\ value.j = "real" ->
                Rational("Float", value.num, value.den, value.e)
          [] column.ty = "String" /\ value.j = "str" -> StringValue(value.s)
          [] OTHER -> NullValue]

\* QueryResponse::build_aggregated_row_component
build_aggregated_row_component(column, aggregate_data) ==
    LET parsed == try_parse_queried_column(column.name)
    IN  IF ~parsed.is_aggregate
        THEN [column |-> AggregateColumn("Count", TableColumn_from(column)),
              value |-> NullValue, components |-> <<>>]
        ELSE LET original_column == WireColumn(<<parsed.column>>, column.source_ty, "None")
                 main == build_column_and_column_value(original_column, aggregate_data.value)
             IN  [column |-> AggregateColumn(parsed.aggregate, main.column),
                  value |-> main.value,
                  components |-> [k \in 1..Len(aggregate_data.components) |->
                      build_column_and_column_value(column, aggregate_data.components[k]).value]]

\* AggregatedRow::new
AggregatedRow_new(values, aggregates) == [values |-> values, aggregates |-> aggregates]

\* QueryResponse::build_row_query_result
build_row_query_result(columns, data) ==
    QueryRows([r \in 1..Len(data) |->
        Row(0, 0, [i \in 1..Min(Len(columns), Len(data[r])) |->
                      build_column_and_column_value(columns[i], data[r][i])])])

\* QueryResponse::build_aggregated_row_query_result
build_aggregated_row_query_result(columns, aggregate_columns, aggregated) ==
    QueryAggregatedRows(
        {AggregatedRow_new(
            [i \in 1..Min(Len(columns), Len(p.data)) |->
                build_column_and_column_value(columns[i], p.data[i])],
            [i \in 1..Min(Len(aggregate_columns), Len(p.aggregates)) |->
                build_aggregated_row_component(aggregate_columns[i], p.aggregates[i])])
         : p \in aggregated})

\* QueryResponse::to_query_result
to_query_result(response) ==
    CASE response.kind = "Empty" -> QueryRows(<<>>)
      [] response.kind = "WithData" -> build_row_query_result(response.columns, response.data)
      [] OTHER -> build_aggregated_row_query_result(
                      response.columns, response.aggregate_columns, response.aggregated)

(***************************************************************************)
(* State.                                                                  *)
(*   disk        the table directory of every node (0 is the node that     *)
(*               serves the requests of Spec and the master of SpecCluster,*)
(*               1..NPeers are the master's peers)                         *)
(*   next_index  the round-robin counter of the master's Shards            *)
(*   last        the last request served: handler, node and outcome        *)
(*   hist        history variable: the rows accepted so far by node 0, as  *)
(*               long as every insert call succeeded with all columns      *)
(*   inflight    the requests being served concurrently: per client the     *)
(*               position of its rr_unicast call (rr) and of its insert    *)
(*               (ins, with the in-memory TableStats of its Table), the    *)
(*               shards selected so far, in lock order (log), the insert   *)
(*               call followed write by write (row) and the scan followed  *)
(*               read by read (scan)                                       *)
(* The response of a query is a function of the request and of the disk    *)
(* state it is served from; the properties below state it for every        *)
(* request of the bounded request set.                                     *)
(***************************************************************************)
VARIABLES disk, next_index, last, hist, inflight

vars == <<disk, next_index, last, hist, inflight>>

Nodes == 0..NPeers
Peers == 1..NPeers
Master == 0

\* The outcome of the last request: the handler, the node that served it,
\* the result of the node's own half (kind, why), and whether every
\* operation the node sent to a peer for it succeeded on that peer.
Last(op, node, kind, why) ==
    [op |-> op, node |-> node, kind |-> kind, why |-> why, peers |-> "Ok"]

\* Bounded inputs.
SeqsUpTo(S, n) == UNION {[1..k -> S] : k \in 0..n}

Strings == {<<"r">>, <<"b">>}
Timestamps == 1..MaxTime

\* Column lists of an insert request: existing columns in any order, or a
\* column the table does not have.
InsertColumns == {<<"x">>, <<"c">>, <<"c", "x">>, <<"x", "c">>, <<"zz">>}

\* JSON values offered for a column: integers, a real, strings and null for
\* the Integer column x; strings and an integer for the String column c.
ValuesFor(name) ==
    IF name = "x"
    THEN {JInt(i) : i \in 1..MaxInt} \cup {JReal(3, 2), JStr(<<"r">>), JNull}
    ELSE {JStr(str) : str \in Strings} \cup {JInt(1)}

\* Rows for a column list: one value per column, or one value too few.
RowsFor(names) ==
    {row \in [1..Len(names) -> UNION {ValuesFor(names[i]) : i \in 1..Len(names)}] :
        \A i \in 1..Len(names) : row[i] \in ValuesFor(names[i])}
    \cup
    {row \in [1..(Len(names) - 1) -> UNION {ValuesFor(names[i]) : i \in 1..Len(names)}] :
        \A i \in 1..(Len(names) - 1) : row[i] \in ValuesFor(names[i])}

Col(name) == <<name>>
Fn(function, name) == <<function, "(", name, ")">>

Request(select, group_by) == [select |-> select, group_by |-> group_by]

PlainSelects ==
    {<<Col("x")>>, <<Col("c")>>, <<Col("c"), Col("x")>>, <<Col("x"), Col("c")>>}
AggregateSelects ==
    {<<Fn("count", "x")>>, <<Fn("sum", "x")>>, <<Fn("avg", "x")>>,
     <<Fn("count", "x"), Fn("sum", "x"), Fn("avg", "x")>>,
     <<Col("c"), Fn("sum", "x")>>}
Requests ==
    {Request(select, <<>>) : select \in PlainSelects \cup AggregateSelects \cup {<<Col("zz")>>}}
    \cup {Request(select, <<"c">>) : select \in AggregateSelects}

(***************************************************************************)
(* Request handlers of a node without shards (transport/api.rs with        *)
(* state.shards = None).                                                   *)
(***************************************************************************)
\* api.rs 408-413 table_insert_future: open, load, insert.
table_insert_future(t, names, values, timestamp) ==
    IF ~TableDefinition_open(t).ok
    THEN [ok |-> FALSE, kind |-> "NotFound", why |-> "TableNotFound", t |-> t]
    ELSE LET r == Table_insert(TableDefinition_load(t), names, values, timestamp)
         IN  [ok |-> r.ok, kind |-> r.kind, why |-> r.why, t |-> r.h.t]

\* api.rs 463-478 table_query_future: open, load, query.
table_query_future(t, select, group_by) ==
    IF ~TableDefinition_open(t).ok THEN [t |-> t, result |-> QueryErr]
    ELSE LET h == TableDefinition_load(t)
         IN  [t |-> h.t, result |-> Table_query(h.t, select, group_by)]

\* api.rs 483-499 on a node without shards: the responses the handler can
\* give for a local result (one per possible first row).
QueryResponses(result) ==
    IF result.ok THEN {serialize_query_result(result, f) : f \in FirstRows(result)}
    ELSE {QueryResponse_empty}

\* POST /query on a node without shards, served from the table t.
api_query(t, request) ==
    QueryResponses(table_query_future(t, request.select, request.group_by).result)

ColumnNames == {c.name : c \in SchemaColumns}

FullColumns(names) == Len(names) = Len(Schema) /\ {names[i] : i \in 1..Len(names)} = ColumnNames

NoHist == [clean |-> FALSE, rows |-> <<>>]

HistAfter(h, ok, names, values) ==
    IF h.clean /\ ok /\ FullColumns(names)
    THEN [h EXCEPT !.rows = @ \o [r \in 1..Len(values) |->
             [name \in ColumnNames |->
                 values[r][CHOOSE i \in 1..Len(names) : names[i] = name]]]]
    ELSE NoHist

\* No Table::insert is under way.  Of a call under way: its position (pc),
\* its result, the TableStats it holds in memory, its resolved columns, its
\* values, the row (i) and the value (j) it is at, its timestamp, and the
\* table as it was loaded (start).
NoInsert ==
    [pc |-> "idle", kind |-> "Ok", why |-> "Ok", row_count |-> 0, next_index |-> 0,
     columns |-> <<>>, values |-> <<>>, i |-> 0, j |-> 0, timestamp |-> 0,
     start |-> NoTable]

\* No Table::query_values is under way.  Of a scan under way: its position
\* (pc), whether it failed, its columns, the position of the index cursor
\* (index) and of each column cursor (positions), the column it is at (i),
\* the components of the row being assembled and the rows assembled.
NoScan ==
    [pc |-> "idle", ok |-> TRUE, columns |-> <<>>, index |-> 0, positions |-> <<>>,
     i |-> 0, values |-> <<>>, rows |-> <<>>]

\* A cursor whose advance leaves it where it is.
Cursor_advance_stays(position) == position

\* ColumnCursor::advance and IndexCursor::advance
Cursor_advance(position) == position + 1

\* The clients whose requests may be served concurrently.
Clients == 1..NClients

\* No request is being served: no rr_unicast call is under way (rr), none has
\* selected a shard yet (log), and no insert is under way (ins).
NoneInFlight ==
    [rr |-> [c \in Clients |-> [pc |-> "idle", shard |-> 0]],
     log |-> <<>>,
     ins |-> [c \in Clients |-> [pc |-> "idle", row_count |-> 0, next_index |-> 0, rows |-> 0]],
     row |-> NoInsert,
     scan |-> NoScan]

Init ==
    /\ disk = [n \in Nodes |-> NoTable]
    /\ next_index = 0
    /\ last = Last("none", 0, "Ok", "Ok")
    /\ hist = [clean |-> TRUE, rows |-> <<>>]
    /\ inflight = NoneInFlight

\* POST /create_table
CreateTable(n) ==
    /\ disk' = [disk EXCEPT ![n] = TableDefinition_create(@, SchemaColumns)]
    /\ last' = Last("create_table", n, "Ok", "Ok")
    /\ UNCHANGED <<next_index, hist, inflight>>

\* POST /insert
Insert(n, names, values, timestamp) ==
    /\ LET r == table_insert_future(disk[n], names, values, timestamp)
       IN  /\ disk' = [disk EXCEPT ![n] = r.t]
           /\ last' = Last("insert", n, r.kind, r.why)
           /\ hist' = HistAfter(hist, r.ok, names, values)
    /\ UNCHANGED <<next_index, inflight>>

\* POST /query
Query(n, request) ==
    /\ LET r == table_query_future(disk[n], request.select, request.group_by)
       IN  /\ disk' = [disk EXCEPT ![n] = r.t]
           /\ last' = Last("query", n, IF r.result.ok THEN "Ok" ELSE "Err", "Ok")
    /\ UNCHANGED <<next_index, hist, inflight>>

Next ==
    \/ CreateTable(0)
    \/ \E names \in InsertColumns : \E values \in SeqsUpTo(RowsFor(names), MaxBatch) :
          \E timestamp \in Timestamps :
              /\ Len(disk[0].index) + Len(values) <= MaxIndex
              /\ Insert(0, names, values, timestamp)
    \/ \E request \in Requests : Query(0, request)

Spec == Init /\ [][Next]_vars

(***************************************************************************)
(* The master (state.shards = Some(Shards)) and its peers.                 *)
(***************************************************************************)
\* Shards::number_of_shards
number_of_shards == NPeers

\* A split that returns the first chunk only.
InsertRequest_split_first_chunk(values, n) ==
    LET chunk_size == (Len(values) + n - 1) \div n
    IN  IF chunk_size = 0 THEN [ok |-> FALSE, requests |-> <<>>]
        ELSE [ok |-> TRUE, requests |-> <<SubSeq(values, 1, Min(chunk_size, Len(values)))>>]

\* InsertRequest::split: the values cut into chunks of ceil(len / n) rows.
\* slice::chunks panics on a chunk size of 0 ("Panic").
InsertRequest_split(values, n) ==
    LET chunk_size == (Len(values) + n - 1) \div n
    IN  IF chunk_size = 0 THEN [ok |-> FALSE, requests |-> <<>>]
        ELSE [ok |-> TRUE,
              requests |->
                [k \in 1..((Len(values) + chunk_size - 1) \div chunk_size) |->
                    SubSeq(values, (k - 1) * chunk_size + 1, Min(k * chunk_size, Len(values)))]]

\* Shards::next_shard: the shard at the counter, and the counter advanced.
next_shard(counter) ==
    [shard |-> counter + 1, next_index |-> (counter + 1) % number_of_shards]

\* A peer serves POST /insert: it always answers with a status string, so
\* the call of the master succeeds whatever the peer's insert returned.
RECURSIVE rr_unicast_all(_, _, _, _, _, _)
rr_unicast_all(d, counter, names, requests, i, timestamp) ==
    IF i > Len(requests) THEN [disk |-> d, next_index |-> counter, peers |-> "Ok"]
    ELSE LET sel == next_shard(counter)
             r == table_insert_future(d[sel.shard], names, requests[i], timestamp)
             rest == rr_unicast_all([d EXCEPT ![sel.shard] = r.t], sel.next_index,
                                    names, requests, i + 1, timestamp)
         IN  IF r.ok THEN rest ELSE [rest EXCEPT !.peers = "Err"]

\* Shards::broadcast of a query: every peer serves POST /query; the call to
\* a peer whose handler panicked fails, and one failed call fails them all.
PeerResponses(d, request) ==
    {f \in [Peers -> UNION {api_query(d[p], request) : p \in Peers}] :
        \A p \in Peers : f[p] \in api_query(d[p], request)}

broadcast_ok(responses) == \A p \in Peers : responses[p].kind # "Panic"

\* A broadcast that returns the responses of the calls that succeeded.
Shards_broadcast_partial(results) ==
    [ok |-> TRUE,
     responses |-> SelectSeq([p \in Peers |-> results[p]], LAMBDA r : r.kind # "Panic")]

\* Shards::broadcast: results holds the outcome of the call to every peer,
\* join_all waits for them all, and the collect into io::Result<Vec<_>> is
\* the responses in peer order, or the error of a failed call.
Shards_broadcast(results) ==
    IF broadcast_ok(results)
    THEN [ok |-> TRUE, responses |-> [p \in Peers |-> results[p]]]
    ELSE [ok |-> FALSE, responses |-> <<>>]

\* api.rs 441-458 broadcast_future: the shard results, none after an error.
broadcast_future(responses) ==
    LET r == Shards_broadcast(responses)
    IN  IF r.ok THEN [p \in 1..Len(r.responses) |-> to_query_result(r.responses[p])]
        ELSE <<>>

\* api.rs 484-493: merge the shard results into the local result, one by one.
RECURSIVE MergeShardResults(_, _, _)
MergeShardResults(query_result, shard_query_results, i) ==
    IF i > Len(shard_query_results) \/ ~query_result.ok THEN query_result
    ELSE MergeShardResults(QueryResult_merge(query_result, shard_query_results[i]),
                           shard_query_results, i + 1)

\* POST /query on the master: the responses it can give.
master_query(d, request) ==
    LET local == table_query_future(d[Master], request.select, request.group_by).result
    IN  IF ~local.ok THEN {QueryResponse_empty}
        ELSE UNION {QueryResponses(MergeShardResults(local, broadcast_future(responses), 1))
                    : responses \in PeerResponses(d, request)}

ClusterRows == {<<JInt(i)>> : i \in 1..MaxInt}
ClusterRequests ==
    {Request(select, <<>>) :
        select \in {<<Col("x")>>, <<Fn("count", "x")>>, <<Fn("sum", "x")>>, <<Fn("avg", "x")>>}}

\* POST /create_table on the master: broadcast to the peers, local create.
MasterCreateTable ==
    /\ disk' = [n \in Nodes |-> TableDefinition_create(disk[n], SchemaColumns)]
    /\ last' = Last("create_table", Master, "Ok", "Ok")
    /\ UNCHANGED <<next_index, hist, inflight>>

\* POST /insert on a peer, sent by a client.
PeerInsert(p, values, timestamp) ==
    /\ Len(disk[p].index) + Len(values) <= MaxClusterRows
    /\ LET r == table_insert_future(disk[p], <<"x">>, values, timestamp)
       IN  /\ disk' = [disk EXCEPT ![p] = r.t]
           /\ last' = Last("insert", p, r.kind, r.why)
    /\ UNCHANGED <<next_index, hist, inflight>>

\* POST /insert on the master: split, chunk 0 locally, the others unicast.
api_insert(values, timestamp) ==
    /\ LET sp == InsertRequest_split(values, number_of_shards + 1)
       IN  IF ~sp.ok
           THEN /\ last' = Last("insert", Master, "Panic", "Panic")
                /\ UNCHANGED <<disk, next_index>>
           ELSE LET sent == rr_unicast_all(disk, next_index, <<"x">>,
                                           Tail(sp.requests), 1, timestamp)
                    local == table_insert_future(disk[Master], <<"x">>,
                                                 Head(sp.requests), timestamp)
                IN  /\ disk' = [sent.disk EXCEPT ![Master] = local.t]
                    /\ next_index' = sent.next_index
                    /\ last' = [Last("insert", Master, local.kind, local.why)
                                   EXCEPT !.peers = sent.peers]
    /\ UNCHANGED <<hist, inflight>>

\* POST /insert on the master, while every node has room for the batch.
MasterInsert(values, timestamp) ==
    /\ \A n \in Nodes : Len(disk[n].index) + Len(values) <= MaxClusterRows
    /\ api_insert(values, timestamp)

\* POST /query on the master: every node opens and loads its table.
MasterQuery(request) ==
    /\ disk' = [n \in Nodes |->
                   table_query_future(disk[n], request.select, request.group_by).t]
    /\ last' = Last("query", Master,
                    IF table_query_future(disk[Master], request.select,
                                          request.group_by).result.ok
                    THEN "Ok" ELSE "Err", "Ok")
    /\ UNCHANGED <<next_index, hist, inflight>>

NextCluster ==
    \/ MasterCreateTable
    \/ \E p \in Peers : \E values \in SeqsUpTo(ClusterRows, MaxBatch) :
          \E timestamp \in Timestamps : PeerInsert(p, values, timestamp)
    \/ \E values \in SeqsUpTo(ClusterRows, MaxBatch) :
          \E timestamp \in Timestamps : MasterInsert(values, timestamp)
    \/ \E request \in ClusterRequests : MasterQuery(request)

SpecCluster == Init /\ [][NextCluster]_vars

(***************************************************************************)
(* Local aggregation over an Integer column: one node, the column x filled *)
(* one row per request with JSON integers (the clock advancing with every  *)
(* row), and aggregate queries without grouping.                           *)
(***************************************************************************)
NumRows == {<<JInt(i)>> : i \in 1..MaxNum}

AllAggregates == Request(<<Fn("count", "x"), Fn("sum", "x"), Fn("avg", "x")>>, <<>>)

NumsRequests ==
    {AllAggregates, Request(<<Fn("sum", "x")>>, <<>>), Request(<<Fn("avg", "x")>>, <<>>)}

NextNums ==
    \/ CreateTable(0)
    \/ \E row \in NumRows :
          /\ Len(disk[0].index) < MaxNumRows
          /\ Insert(0, <<"x">>, <<row>>, Len(disk[0].index) + 1)
    \/ \E request \in NumsRequests : Query(0, request)

SpecNums == Init /\ [][NextNums]_vars

(***************************************************************************)
(* Properties.                                                             *)
(***************************************************************************)
\* The persisted counters of a table, as TableStats::from_file reads them.
PersistedStats(stats) == TableStats_from_file(stats)

RECURSIVE SumOf(_)
SumOf(seq) == IF Len(seq) = 0 THEN 0 ELSE Head(seq) + SumOf(Tail(seq))

\* The Integer column x of table t holds one stored integer per index entry.
HoldsIntegers(t) ==
    LET file == t.data[Column("x", "Integer")]
    IN  /\ t.exists
        /\ Len(t.index) >= 1
        /\ Len(file) = Len(t.index)
        /\ \A i \in 1..Len(file) :
              /\ file[i].index_id = t.index[i].index_id
              /\ file[i].data.k = "i64"

IntegersOf(t) ==
    LET file == t.data[Column("x", "Integer")]
    IN  [i \in 1..Len(file) |-> file[i].data.num]

\* The values of the aggregates of the only row of an aggregated response.
AggregateValues(response) ==
    LET row == CHOOSE r \in response.aggregated : TRUE
    IN  [i \in 1..Len(row.aggregates) |-> row.aggregates[i].value]

SingleAggregatedRow(response) ==
    /\ response.kind = "WithAggregatedData"
    /\ Cardinality(response.aggregated) = 1
    /\ \A r \in response.aggregated : r.data = <<>>

\* The JSON number n / d of a Float result.
JQuotient(n, d) == JReal(n \div Gcd(n, d), d \div Gcd(n, d))

StrictlyIncreasing(file) ==
    \A i, j \in 1..Len(file) : i < j => file[i].index_id < file[j].index_id

IndexIds(t) == {t.index[k].index_id : k \in 1..Len(t.index)}

\* The row-id invariant of a table: every column file has strictly
\* increasing row-ids, each of them present in the index.
RowIdInvariant(t) ==
    \A c \in SchemaColumns :
        /\ StrictlyIncreasing(t.data[c])
        /\ \A i \in 1..Len(t.data[c]) : t.data[c][i].index_id \in IndexIds(t)

\* C2: on every node, after any sequence of create, load and insert calls,
\* the persisted row_count equals the persisted next_row_id, and both equal
\* the number of entries of the index file.
C2_stats_match_index ==
    \A n \in Nodes :
        disk[n].exists =>
            /\ PersistedStats(disk[n].stats).row_count = PersistedStats(disk[n].stats).next_index
            /\ PersistedStats(disk[n].stats).row_count = Len(disk[n].index)

\* C3: after any sequence of insert calls, successful or failing, the
\* row-ids of every column file are strictly increasing and each of them is
\* a row-id of the index file.
C3_row_ids_increasing == \A n \in Nodes : RowIdInvariant(disk[n])

\* The column of table t named by a plain select token.
SelectedColumn(t, token) == CHOOSE c \in t.columns : c.name = token[1]

\* The value a row-id has in a column file: that of its entry, else Null.
ValueAt(t, c, index_id) ==
    LET file == t.data[c]
    IN  IF \E i \in 1..Len(file) : file[i].index_id = index_id
        THEN FromDisk(c.ty, file[CHOOSE i \in 1..Len(file) : file[i].index_id = index_id].data)
        ELSE NullValue

\* One row per index entry, in index order, Null where a column has no entry.
SparseRows(t, select) ==
    [k \in 1..Len(t.index) |->
        [i \in 1..Len(select) |->
            ColumnValue_to_json(ValueAt(t, SelectedColumn(t, select[i]), t.index[k].index_id))]]

\* C4: for a table with at least one row, every row counted in the stats,
\* whose index and column files satisfy the row-id invariant, a query of
\* existing columns returns exactly
\* one row per index entry, in index order, holding for every selected
\* column the value of its entry with that row-id, or Null if it has none.
C4_sparse_rows ==
    \A n \in Nodes : \A select \in PlainSelects :
        (/\ disk[n].exists
         /\ Len(disk[n].index) >= 1
         /\ PersistedStats(disk[n].stats).row_count = Len(disk[n].index)
         /\ StrictlyIncreasing(disk[n].index)
         /\ RowIdInvariant(disk[n]))
        => \A response \in api_query(disk[n], Request(select, <<>>)) :
              /\ response.kind = "WithData"
              /\ response.data = SparseRows(disk[n], select)

\* Two JSON values are equal: the same value, or numbers of equal magnitude.
JsonEqual(a, b) ==
    \/ a = b
    \/ IsNumber(a) /\ IsNumber(b) /\ a.e = b.e /\ a.num * b.den = b.num * a.den

\* C1: while every insert so far succeeded and supplied every column, a
\* query selecting the columns returns one row per inserted row, in
\* insertion order, whose values equal the inserted values componentwise.
C1_round_trip ==
    \A select \in {<<Col("c"), Col("x")>>, <<Col("x"), Col("c")>>} :
        (hist.clean /\ Len(hist.rows) >= 1)
        => \A response \in api_query(disk[0], Request(select, <<>>)) :
              /\ response.kind = "WithData"
              /\ Len(response.data) = Len(hist.rows)
              /\ \A r \in 1..Len(hist.rows) : \A i \in 1..Len(select) :
                    JsonEqual(response.data[r][i], hist.rows[r][select[i][1]])

\* Every index entry of table t has an entry in every column file.
Dense(t) ==
    /\ t.exists
    /\ Len(t.index) >= 1
    /\ StrictlyIncreasing(t.index)
    /\ \A c \in SchemaColumns :
          /\ Len(t.data[c]) = Len(t.index)
          /\ \A i \in 1..Len(t.index) : t.data[c][i].index_id = t.index[i].index_id

\* The distinct values of column c over the rows of table t.
DistinctValues(t, c) == {ValueAt(t, c, t.index[k].index_id) : k \in 1..Len(t.index)}

\* C8: an aggregate query grouped by the existing column c returns exactly
\* one aggregated row per distinct value of c among the rows, whether or
\* not c appears in the select list.
C8_one_row_per_group ==
    \A select \in AggregateSelects :
        Dense(disk[0])
        => \A response \in api_query(disk[0], Request(select, <<"c">>)) :
              /\ response.kind = "WithAggregatedData"
              /\ Cardinality(response.aggregated)
                    = Cardinality(DistinctValues(disk[0], Column("c", "String")))

\* C9: an insert call that returns the type-mismatch error leaves the
\* persisted row_count of the table as it was before the call.
C9_type_mismatch_keeps_row_count ==
    [][(last'.op = "insert" /\ last'.why = "TypeMismatch")
        => PersistedStats(disk'[last'.node].stats).row_count
              = PersistedStats(disk[last'.node].stats).row_count]_vars

\* C10: an insert call that fails on a row of the wrong length fails with
\* InvalidData and appends none of its rows to the index or to a column
\* file, and counts none of them in the stats.
C10_row_arity_writes_nothing ==
    [][(last'.op = "insert" /\ last'.why = "RowArity")
        => /\ last'.kind = "InvalidData"
           /\ disk'[last'.node].index = disk[last'.node].index
           /\ disk'[last'.node].data = disk[last'.node].data
           /\ PersistedStats(disk'[last'.node].stats).row_count
                 = PersistedStats(disk[last'.node].stats).row_count]_vars

\* The integers stored in column x on all nodes, node after node.
RECURSIVE ClusterIntegers(_)
ClusterIntegers(n) ==
    IF n > NPeers THEN <<>> ELSE IntegersOf(disk[n]) \o ClusterIntegers(n + 1)

\* Every node has the table, every row of it is a stored integer of x, and
\* the cluster holds at least one row.
ClusterHoldsIntegers ==
    /\ \A n \in Nodes :
          /\ disk[n].exists
          /\ Len(disk[n].index) = 0 \/ HoldsIntegers(disk[n])
          /\ Len(disk[n].data[Column("x", "Integer")]) = Len(disk[n].index)
    /\ Len(ClusterIntegers(0)) >= 1

\* C5: however the rows are spread over the master and its peers, nodes
\* without rows included, count(x) asked at the master is the count a single
\* node holding all the rows returns: the number of rows.
C5_count_of_partition ==
    ClusterHoldsIntegers
    => \A response \in master_query(disk, Request(<<Fn("count", "x")>>, <<>>)) :
          /\ SingleAggregatedRow(response)
          /\ AggregateValues(response) = <<JInt(Len(ClusterIntegers(0)))>>

\* C6: however the rows of the Integer column x are spread over the master
\* and its peers, sum(x) merged at the master is the integer sum of the
\* values of all nodes, and avg(x) is the combined sum over the combined
\* count.
C6_sum_avg_of_partition ==
    ClusterHoldsIntegers
    => /\ \A response \in master_query(disk, Request(<<Fn("sum", "x")>>, <<>>)) :
             /\ SingleAggregatedRow(response)
             /\ AggregateValues(response) = <<JInt(SumOf(ClusterIntegers(0)))>>
       /\ \A response \in master_query(disk, Request(<<Fn("avg", "x")>>, <<>>)) :
             /\ SingleAggregatedRow(response)
             /\ LET avg == AggregateValues(response)[1]
                IN  /\ IsNumber(avg)
                    /\ avg.e = 0
                    /\ avg.num * Len(ClusterIntegers(0))
                          = SumOf(ClusterIntegers(0)) * avg.den

(***************************************************************************)
(* A Float column: one node, the table (f Float) filled one row per        *)
(* request with JSON integers, a JSON real or a JSON string, and queries   *)
(* of the column.                                                          *)
(***************************************************************************)
FloatRows ==
    {<<JInt(i)>> : i \in 1..MaxInt} \cup {<<JReal(3, 2)>>, <<JStr(<<"r">>)>>}

SelectFloat == Request(<<Col("f")>>, <<>>)

\* POST /create_table with the column f of type Float.
CreateFloatTable ==
    /\ disk' = [disk EXCEPT ![0] = TableDefinition_create(@, FloatSchemaColumns)]
    /\ last' = Last("create_table", 0, "Ok", "Ok")
    /\ UNCHANGED <<next_index, hist, inflight>>

NextFloat ==
    \/ CreateFloatTable
    \/ \E row \in FloatRows :
          /\ Len(disk[0].index) < MaxNumRows
          /\ Insert(0, <<"f">>, <<row>>, Len(disk[0].index) + 1)
    \/ Query(0, SelectFloat)

SpecFloat == Init /\ [][NextFloat]_vars

\* The file of column c of table t has exactly one entry per index entry.
ColumnComplete(t, c) ==
    /\ t.exists
    /\ Len(t.index) >= 1
    /\ Len(t.data[c]) = Len(t.index)
    /\ \A i \in 1..Len(t.index) : t.data[c][i].index_id = t.index[i].index_id

\* C11: a JSON integer inserted into a Float column is returned by a later
\* query of that column as a Float numerically equal to the integer.
C11_integer_into_float ==
    LET file == disk[0].data[Column("f", "Float")]
    IN  ColumnComplete(disk[0], Column("f", "Float"))
        => \A response \in api_query(disk[0], SelectFloat) :
              /\ response.kind = "WithData"
              /\ \A i \in 1..Len(file) :
                    file[i].data.k = "i64"
                    => /\ response.data[i][1].j = "real"
                       /\ response.data[i][1].e = 0
                       /\ response.data[i][1].num
                             = file[i].data.num * response.data[i][1].den

\* C12: an Integer column accepts only JSON integers, so no entry of the
\* file of the Integer column x was written from a JSON real.
C12_integer_column_holds_integers ==
    \A n \in Nodes :
        \A i \in 1..Len(disk[n].data[Column("x", "Integer")]) :
            disk[n].data[Column("x", "Integer")][i].data.k = "i64"

(***************************************************************************)
(* One table on one node: create_table at any time, single-row inserts     *)
(* that name existing columns, a column in another letter case or a column *)
(* the table does not have, and queries.                                   *)
(***************************************************************************)
CoreColumns == {<<"x">>, <<"c", "x">>, <<"X">>, <<"zz">>, <<"x", "zz">>}

CoreValuesFor(name) ==
    IF name = "c" THEN {JStr(<<"r">>)}
    ELSE {JInt(i) : i \in 1..MaxInt} \cup {JStr(<<"r">>)}

CoreRowsFor(names) ==
    {row \in [1..Len(names) -> UNION {CoreValuesFor(names[i]) : i \in 1..Len(names)}] :
        \A i \in 1..Len(names) : row[i] \in CoreValuesFor(names[i])}

CoreRequests ==
    {Request(<<Col("x")>>, <<>>), Request(<<Col("c"), Col("x")>>, <<>>),
     Request(<<Fn("sum", "x")>>, <<>>)}

NextCore ==
    \/ CreateTable(0)
    \/ \E names \in CoreColumns : \E row \in CoreRowsFor(names) :
          /\ Len(disk[0].index) < MaxCoreRows
          /\ Insert(0, names, <<row>>, Len(disk[0].index) + 1)
    \/ \E request \in CoreRequests : Query(0, request)

SpecCore == Init /\ [][NextCore]_vars

\* C13: an insert call that names a column the table does not have (exact,
\* case-sensitive match) fails with the unsupported-column error and writes
\* nothing: the index file, every column file and the persisted row_count
\* and next_row_id are after the call what they were before it.
C13_unknown_column_writes_nothing ==
    [][(last'.op = "insert" /\ last'.why = "UnknownColumn")
        => /\ last'.kind = "Unsupported"
           /\ disk'[last'.node].index = disk[last'.node].index
           /\ disk'[last'.node].data = disk[last'.node].data
           /\ PersistedStats(disk'[last'.node].stats).row_count
                 = PersistedStats(disk[last'.node].stats).row_count
           /\ PersistedStats(disk'[last'.node].stats).next_index
                 = PersistedStats(disk[last'.node].stats).next_index]_vars

\* C13 witness: an insert into a table that holds a row was refused for its
\* column names.
C13_witness ==
    /\ last.op = "insert"
    /\ last.why = "UnknownColumn"
    /\ Len(disk[0].index) >= 1
    /\ Len(disk[0].data[Column("x", "Integer")]) >= 1

\* C15: create_table on a table that exists with the same columns succeeds
\* and leaves the index, the stats and the column files as they were, so
\* every query answers after it what it answered before it.
C15_create_is_idempotent ==
    [][(/\ last'.op = "create_table"
        /\ disk[last'.node].exists
        /\ SchemaColumns \subseteq disk[last'.node].columns)
        => /\ last'.kind = "Ok"
           /\ disk'[last'.node] = disk[last'.node]
           /\ \A request \in CoreRequests :
                 api_query(disk'[last'.node], request)
                    = api_query(disk[last'.node], request)]_vars

\* C15 witness: create_table was served on a table that holds rows, and a
\* query of x returns one row per index entry.
C15_witness ==
    /\ last.op = "create_table"
    /\ Len(disk[0].index) >= 1
    /\ \E response \in api_query(disk[0], Request(<<Col("x")>>, <<>>)) :
          /\ response.kind = "WithData"
          /\ Len(response.data) = Len(disk[0].index)

\* C14: a query, successful or failing, on a freshly created or a populated
\* table, leaves the table directory as it was: the same files with the
\* same contents.
C14_query_writes_nothing ==
    [][last'.op = "query" => disk' = disk]_vars

(***************************************************************************)
(* The master's create and insert handlers with rows that a peer may       *)
(* reject: the column x is Integer, and a request may carry a JSON string  *)
(* for it.                                                                 *)
(***************************************************************************)
ShardRows == ClusterRows \cup {<<JStr(<<"r">>)>>}

NextShards ==
    \/ MasterCreateTable
    \/ \E values \in SeqsUpTo(ShardRows, MaxBatch) :
          \E timestamp \in Timestamps : MasterInsert(values, timestamp)

SpecShards == Init /\ [][NextShards]_vars

\* C16: the master reports a create_table or an insert as successful exactly
\* when its own operation and every operation it sent to a peer for that
\* request succeeded.
C16_master_status_covers_peers ==
    (last.node = Master /\ last.op \in {"create_table", "insert"})
        => (last.kind = "Ok" <=> (last.why = "Ok" /\ last.peers = "Ok"))

\* api.rs 481-500: the master's responses to a query, given the answers the
\* peers gave to the broadcast.
master_query_given(d, request, responses) ==
    LET local == table_query_future(d[Master], request.select, request.group_by).result
    IN  IF ~local.ok THEN {QueryResponse_empty}
        ELSE QueryResponses(MergeShardResults(local, broadcast_future(responses), 1))

\* The requests of ClusterRequests whose select is an aggregate function call.
AggregateRequests == {request \in ClusterRequests : Len(request.select[1]) > 1}

\* C17: when the call to some peer fails during an aggregate query, the
\* master does not answer with aggregated data.
C17_peer_failure_aborts_aggregates ==
    \A request \in AggregateRequests :
        \A responses \in PeerResponses(disk, request) :
            ~broadcast_ok(responses)
            => \A response \in master_query_given(disk, request, responses) :
                  response.kind # "WithAggregatedData"

\* The table of node n exists and holds no rows.
EmptyTable(n) == disk[n].exists /\ Len(disk[n].index) = 0

\* C18: a query on a table without rows, plain or aggregate, is answered
\* with the Empty response, by a node without shards and by the master when
\* no node holds a row.
C18_empty_result_is_empty_variant ==
    \A request \in ClusterRequests :
        /\ \A n \in Nodes :
              EmptyTable(n) => api_query(disk[n], request) = {QueryResponse_empty}
        /\ (\A n \in Nodes : EmptyTable(n))
              => master_query(disk, request) = {QueryResponse_empty}

\* The requests whose results meet in the merge: plain selects and an
\* aggregate.
MergeRequests == CoreRequests

\* The results the master can compute from the table t.
LocalResults(t) ==
    {result \in {Table_query(t, request.select, request.group_by) :
                    request \in MergeRequests} : result.ok}

\* The results the master can receive from a peer that holds the table t:
\* the peer's answer to a request, or the Empty response of a peer whose
\* query failed, converted by to_query_result.
ShardResults(t) ==
    {to_query_result(response) :
        response \in {r \in UNION {api_query(t, request) : request \in MergeRequests}
                                \cup {QueryResponse_empty} : r.kind # "Panic"}}

\* C19: merging a row result with an aggregated result, in either order,
\* is an error, and a master whose own result and some shard result differ
\* in variant answers with the Empty response, with no rows of either.
C19_mixed_merge_is_error ==
    \A local \in LocalResults(disk[0]) : \A other \in ShardResults(disk[0]) :
        local.variant # other.variant
        => /\ ~QueryResult_merge(local, other).ok
           /\ ~QueryResult_merge(other, local).ok
           /\ \A same \in {r \in ShardResults(disk[0]) : r.variant = local.variant} :
                 /\ QueryResponses(MergeShardResults(local, <<other>>, 1))
                       = {QueryResponse_empty}
                 /\ QueryResponses(MergeShardResults(local, <<same, other>>, 1))
                       = {QueryResponse_empty}
                 /\ QueryResponses(MergeShardResults(local, <<other, same>>, 1))
                       = {QueryResponse_empty}

\* A query was served from a table with rows: its row result and its
\* aggregated result, both with data, are offered to the merge.
C19_witness ==
    /\ last.op = "query"
    /\ Len(disk[0].index) >= 2
    /\ \E local \in LocalResults(disk[0]) : \E other \in ShardResults(disk[0]) :
          /\ local.variant = "AggregatedRows" /\ local.aggregated # {}
          /\ other.variant = "Rows" /\ Len(other.rows) >= 2
          /\ ~QueryResult_merge(local, other).ok
    /\ \E local \in LocalResults(disk[0]) : \E other \in ShardResults(disk[0]) :
          /\ local.variant = "Rows" /\ Len(local.rows) >= 2
          /\ other.variant = "AggregatedRows" /\ other.aggregated # {}
          /\ ~QueryResult_merge(local, other).ok

(***************************************************************************)
(* Interrupted inserts: one table on one node, single-row inserts of valid *)
(* rows for the columns c and x, and inserts whose process stops after the *)
(* row's index entry and the first `written` of its column entries reached *)
(* the files, before TableStats::increment.                                *)
(***************************************************************************)
CrashRows == {<<JStr(<<"r">>), JInt(i)>> : i \in 1..MaxInt}

CrashSelects == {<<Col("x")>>, <<Col("c")>>, <<Col("c"), Col("x")>>}

\* table.rs 186-218 up to the interruption: load, resolve the columns, append
\* the index entry, write the first `written` values.
InsertCrash(n, names, row, timestamp, written) ==
    /\ TableDefinition_open(disk[n]).ok
    /\ ColumnsValid(disk[n].columns, names)
    /\ Len(row) = Len(names)
    /\ LET h == TableDefinition_load(disk[n])
           columns == parse_and_validate_columns(h.t.columns, names)
           r == InsertRowValues(TableIndex_append(h, timestamp), timestamp,
                                SubSeq(columns, 1, written), SubSeq(row, 1, written), 1)
       IN  /\ r.ok
           /\ disk' = [disk EXCEPT ![n] = r.h.t]
    /\ last' = Last("crash", n, "Ok", "Ok")
    /\ hist' = NoHist
    /\ UNCHANGED <<next_index, inflight>>

NextCrash ==
    \/ CreateTable(0)
    \/ \E row \in CrashRows :
          /\ Len(disk[0].index) < MaxCrashRows
          /\ Insert(0, <<"c", "x">>, <<row>>, Len(disk[0].index) + 1)
    \/ \E row \in CrashRows : \E written \in 0..2 :
          /\ Len(disk[0].index) < MaxCrashRows
          /\ InsertCrash(0, <<"c", "x">>, row, Len(disk[0].index) + 1, written)
    \/ \E select \in CrashSelects : Query(0, Request(select, <<>>))

SpecCrash == Init /\ [][NextCrash]_vars

\* Column c of table t has an entry with that row-id.
HasEntry(t, c, index_id) ==
    \E i \in 1..Len(t.data[c]) : t.data[c][i].index_id = index_id

\* C20: after inserts interrupted between a row's index entry and its stats
\* update, and after further inserts, every query of existing columns
\* succeeds and returns one row per index entry, with Null in the columns
\* that have no entry for the row.
C20_readable_after_crash ==
    \A select \in CrashSelects :
        (disk[0].exists /\ Len(disk[0].index) >= 1)
        => LET result == table_query_future(disk[0], select, <<>>).result
           IN  /\ result.ok
               /\ Len(result.rows) = Len(disk[0].index)
               /\ \A k \in 1..Len(disk[0].index) : \A i \in 1..Len(select) :
                     ~HasEntry(disk[0], SelectedColumn(disk[0], select[i]),
                               disk[0].index[k].index_id)
                     => result.rows[k].values[i].value = NullValue

\* The size in bytes of a column file: every entry is a row-id, a timestamp
\* and its payload.
RECURSIVE ColumnFileSize(_, _)
ColumnFileSize(file, i) ==
    IF i > Len(file) THEN 0
    ELSE index_and_timestamp_size + PayloadSize(file[i].data) + ColumnFileSize(file, i + 1)

\* The sizes in bytes of the index file (row-id and timestamp per entry) and
\* of the stats file (one u64 per word).
IndexFileSize(t) == Len(t.index) * index_and_timestamp_size
StatsFileSize(t) == Len(t.stats) * ColumnType_size("Integer")

\* C21: for every table on disk, after create_table returned and between
\* any two requests, every column file's size is a multiple of
\* 16 + size(type), the index file's size is a multiple of 16 and the stats
\* file holds at least 16 bytes.
C21_file_sizes ==
    \A n \in Nodes :
        disk[n].exists
        => /\ \A c \in disk[n].columns :
                 ColumnFileSize(disk[n].data[c], 1)
                     % (index_and_timestamp_size + ColumnType_size(c.ty)) = 0
           /\ IndexFileSize(disk[n]) % index_and_timestamp_size = 0
           /\ StatsFileSize(disk[n]) >= 2 * ColumnType_size("Integer")

(***************************************************************************)
(* Values that are neither numbers nor strings: one table on one node,     *)
(* single-row inserts whose values may be JSON null or a JSON boolean, and *)
(* plain queries.                                                          *)
(***************************************************************************)
NullColumns == {<<"x">>, <<"c">>, <<"c", "x">>, <<"x", "c">>}

NullValuesFor(name) ==
    IF name = "c" THEN {JStr(<<"r">>), JNull}
    ELSE {JInt(i) : i \in 1..MaxInt} \cup {JNull, JTrue}

NullRowsFor(names) ==
    {row \in [1..Len(names) -> UNION {NullValuesFor(names[i]) : i \in 1..Len(names)}] :
        \A i \in 1..Len(names) : row[i] \in NullValuesFor(names[i])}

NextNull ==
    \/ CreateTable(0)
    \/ \E names \in NullColumns : \E row \in NullRowsFor(names) :
          /\ Len(disk[0].index) < MaxNullRows
          /\ Insert(0, names, <<row>>, Len(disk[0].index) + 1)
    \/ \E select \in PlainSelects : Query(0, Request(select, <<>>))

SpecNull == Init /\ [][NextNull]_vars

\* Every column entry of table t holds a payload of its column's size that
\* reads back as a value other than Null.
NoNullStored(t) ==
    \A c \in t.columns : \A i \in 1..Len(t.data[c]) :
        /\ PayloadSize(t.data[c][i].data) = ColumnType_size(c.ty)
        /\ FromDisk(c.ty, t.data[c][i].data) # NullValue

\* While row-ids identify the rows of table t, a Null of a query result
\* stands where the column has no entry with the row's id.
NullMeansAbsent(t) ==
    \A select \in PlainSelects :
        LET result == table_query_future(t, select, <<>>).result
        IN  (t.exists /\ StrictlyIncreasing(t.index) /\ result.ok)
            => \A k \in 1..Len(result.rows) : \A i \in 1..Len(select) :
                  result.rows[k].values[i].value = NullValue
                  => ~HasEntry(t, SelectedColumn(t, select[i]), result.rows[k].index_id)

\* The value is neither a JSON number nor a JSON string.
NotStorable(value) == ~IsNumber(value) /\ value.j # "str"

RECURSIVE ClusterIndexEntries(_)
ClusterIndexEntries(n) ==
    IF n > NPeers THEN 0 ELSE Len(disk[n].index) + ClusterIndexEntries(n + 1)

NextUnion ==
    \/ MasterCreateTable
    \/ \E n \in Nodes : \E row \in ClusterRows :
          /\ ClusterIndexEntries(0) < MaxUnionRows
          /\ Insert(n, <<"x">>, <<row>>, Len(disk[n].index) + 1)
    \/ MasterQuery(Request(<<Col("x")>>, <<>>))

SpecUnion == Init /\ [][NextUnion]_vars

\* The multiset of the elements of a sequence.
Multiset(seq) ==
    [x \in {seq[i] : i \in 1..Len(seq)} |-> Cardinality({i \in 1..Len(seq) : seq[i] = x})]

\* The rows of x stored on the nodes n..NPeers, as the data rows of a
\* response.
RECURSIVE ClusterData(_)
ClusterData(n) ==
    IF n > NPeers THEN <<>>
    ELSE SparseRows(disk[n], <<Col("x")>>) \o ClusterData(n + 1)

RECURSIVE ClusterRowCount(_)
ClusterRowCount(n) ==
    IF n > NPeers THEN 0
    ELSE PersistedStats(disk[n].stats).row_count + ClusterRowCount(n + 1)

\* C23: when every peer answers a plain select of x asked at the master,
\* the master returns the multiset union of its own rows and every peer's
\* rows: each stored row once, as many rows as the nodes' row counts add up
\* to.
C23_rows_are_the_union ==
    \A responses \in PeerResponses(disk, Request(<<Col("x")>>, <<>>)) :
        (/\ \A n \in Nodes : disk[n].exists
         /\ broadcast_ok(responses))
        => \A response \in master_query_given(disk, Request(<<Col("x")>>, <<>>), responses) :
              /\ response.kind = "WithData"
              /\ Multiset(response.data) = Multiset(ClusterData(0))
              /\ Len(response.data) = ClusterRowCount(0)

\* C23 witness: the master and every peer hold rows, a value is stored
\* twice, and the plain select was served by the master.
C23_witness ==
    /\ last.op = "query" /\ last.node = Master
    /\ \A n \in Nodes : Len(disk[n].index) >= 1
    /\ Cardinality({ClusterData(0)[i] : i \in 1..Len(ClusterData(0))}) < Len(ClusterData(0))
    /\ \A response \in master_query(disk, Request(<<Col("x")>>, <<>>)) :
          response.kind = "WithData" /\ Len(response.data) = Len(ClusterData(0))

\* Every entry of column c of table t has a row-id below index_id: a cursor
\* on c is at the end of the file when the index row index_id is assembled.
Exhausted(t, c, index_id) ==
    \A i \in 1..Len(t.data[c]) : t.data[c][i].index_id < index_id

\* C24: in a table whose index rows all come from successful inserts, a
\* query of existing columns returns every index row even when a column
\* file ends before the index does: the rows the exhausted column has no
\* entry for get Null in that column.
C24_exhausted_column_reads_null ==
    \A select \in PlainSelects :
        (/\ disk[0].exists
         /\ PersistedStats(disk[0].stats).row_count = Len(disk[0].index))
        => LET result == table_query_future(disk[0], select, <<>>).result
           IN  /\ result.ok
               /\ Len(result.rows) = Len(disk[0].index)
               /\ \A k \in 1..Len(disk[0].index) : \A i \in 1..Len(select) :
                     Exhausted(disk[0], SelectedColumn(disk[0], select[i]),
                               disk[0].index[k].index_id)
                     => result.rows[k].values[i].value = NullValue

\* ceil(a / b) for b > 0.
CeilDiv(a, b) == (a + b - 1) \div b

\* The batches a client may send to the master: 1..MaxBatch rows.
Batches == SeqsUpTo(ShardRows, MaxBatch) \ {<<>>}

\* C25: on a master with N peers, split(N + 1) of a batch of len >= 1 rows
\* yields exactly N + 1 chunks, the k-th holding the rows from
\* (k-1) * ceil(len / (N+1)) + 1 on, at most ceil(len / (N+1)) of them (none
\* once the batch is used up); the master stores chunk 0 and unicasts every
\* other chunk, so that N unicasts leave the round-robin counter where it
\* was.
C25_split_yields_all_chunks ==
    /\ []\A N \in 0..NPeers : \A values \in Batches :
            LET sp == InsertRequest_split(values, N + 1)
                size == CeilDiv(Len(values), N + 1)
            IN  /\ sp.ok
                /\ Len(sp.requests) = N + 1
                /\ \A k \in 1..Len(sp.requests) :
                      sp.requests[k]
                          = SubSeq(values, (k - 1) * size + 1, Min(k * size, Len(values)))
    /\ [][(last'.op = "insert" /\ last'.node = Master /\ last'.kind # "Panic")
              => next_index' = next_index]_vars

(***************************************************************************)
(* Large batches through the master: the table created through the master  *)
(* and insert requests of 1..MaxRequestRows rows of x, while the nodes     *)
(* together hold at most MaxRequestRows index entries.                     *)
(***************************************************************************)
RequestBatches(len) == [1..len -> ClusterRows]

NextBatch ==
    \/ MasterCreateTable
    \/ \E len \in 1..MaxRequestRows : \E values \in RequestBatches(len) :
          /\ ClusterIndexEntries(0) + len <= MaxRequestRows
          /\ api_insert(values, 1)

SpecBatch == Init /\ [][NextBatch]_vars

\* The rows node n of the cluster d holds: its index entries, all counted
\* in its stats.
RowsOn(d, n) ==
    IF PersistedStats(d[n].stats).row_count = Len(d[n].index) THEN Len(d[n].index) ELSE -1

\* C26: with a master and two peers whose tables are empty, an insert of 6
\* rows through the master leaves 3 rows on the master, 3 rows on one peer
\* and none on the other.
C26_six_rows_three_three_zero ==
    [][\A values \in RequestBatches(6) :
          (/\ NPeers = 2
           /\ \A n \in Nodes : disk[n].exists /\ Len(disk[n].index) = 0
           /\ api_insert(values, 1))
          => /\ RowsOn(disk', Master) = 3
             /\ \E p, q \in Peers :
                   p # q /\ RowsOn(disk', p) = 3 /\ RowsOn(disk', q) = 0]_vars

(***************************************************************************)
(* Well-typed batches through the master: the table created through the   *)
(* master and insert requests of 1..MaxBatch rows of x, while the nodes    *)
(* together hold at most MaxConserveRows index entries.                    *)
(***************************************************************************)
NextConserve ==
    \/ MasterCreateTable
    \/ \E values \in SeqsUpTo(ClusterRows, MaxBatch) \ {<<>>} :
          /\ ClusterIndexEntries(0) + Len(values) <= MaxConserveRows
          /\ api_insert(values, 1)

SpecConserve == Init /\ [][NextConserve]_vars

\* The payloads of the entries that the step appended to x's file on node n.
AppendedPayloads(n) ==
    LET before == disk[n].data[Column("x", "Integer")]
        after == disk'[n].data[Column("x", "Integer")]
    IN  [i \in 1..(Len(after) - Len(before)) |-> after[Len(before) + i].data]

\* The payloads of the rows of values that owner assigns to node n, in
\* input order.
RECURSIVE OwnedPayloads(_, _, _, _)
OwnedPayloads(values, owner, n, i) ==
    IF i > Len(values) THEN <<>>
    ELSE (IF owner[i] = n THEN <<I64Bytes(values[i][1].num)>> ELSE <<>>)
            \o OwnedPayloads(values, owner, n, i + 1)

\* The sum of the persisted row counts of the nodes n..NPeers of cluster d.
RECURSIVE RowCountSum(_, _)
RowCountSum(d, n) ==
    IF n > NPeers THEN 0
    ELSE PersistedStats(d[n].stats).row_count + RowCountSum(d, n + 1)

Unlocked_always(rr) == TRUE

\* Mutex::lock succeeds when no call holds the guard of next_index.
Unlocked(rr) == \A c \in Clients : rr[c].pc \notin {"locked", "selected"}

\* rr_unicast is called.
RrCall(c) ==
    /\ inflight.rr[c].pc = "idle"
    /\ Len(inflight.log)
          + Cardinality({b \in Clients : inflight.rr[b].pc = "called"}) < MaxSelections
    /\ inflight' = [inflight EXCEPT !.rr[c].pc = "called"]
    /\ UNCHANGED <<disk, next_index, last, hist>>

\* shard.rs 90: self.next_index.lock()
RrLock(c) ==
    /\ inflight.rr[c].pc = "called"
    /\ Unlocked(inflight.rr)
    /\ inflight' = [inflight EXCEPT !.rr[c].pc = "locked"]
    /\ UNCHANGED <<disk, next_index, last, hist>>

\* shard.rs 91: the shard at the counter.
RrSelect(c) ==
    /\ inflight.rr[c].pc = "locked"
    /\ inflight' = [inflight EXCEPT !.rr[c] = [pc |-> "selected", shard |-> next_index + 1],
                                    !.log = Append(@, next_index + 1)]
    /\ UNCHANGED <<disk, next_index, last, hist>>

\* shard.rs 93-95: the counter advances, and the guard is dropped.
RrAdvance(c) ==
    /\ inflight.rr[c].pc = "selected"
    /\ next_index' = (next_index + 1) % number_of_shards
    /\ inflight' = [inflight EXCEPT !.rr[c].pc = "sending"]
    /\ UNCHANGED <<disk, last, hist>>

\* shard.rs 84-86: the call to the shard returns.
RrReturn(c) ==
    /\ inflight.rr[c].pc = "sending"
    /\ inflight' = [inflight EXCEPT !.rr[c] = [pc |-> "idle", shard |-> 0]]
    /\ last' = Last("rr_unicast", Master, "Ok", "Ok")
    /\ UNCHANGED <<disk, next_index, hist>>

NextRr ==
    \E c \in Clients : RrCall(c) \/ RrLock(c) \/ RrSelect(c) \/ RrAdvance(c) \/ RrReturn(c)

SpecRr == Init /\ [][NextRr]_vars

\* C28: the round-robin counter stays in [0, N); the k-th call in lock order
\* (k = 0, 1, ...) selects peer k mod N, under every interleaving of the
\* calls; any N consecutive selections hit N distinct peers.
C28_round_robin ==
    /\ next_index \in 0..(number_of_shards - 1)
    /\ \A k \in 1..Len(inflight.log) :
          inflight.log[k] = ((k - 1) % number_of_shards) + 1
    /\ \A k \in 1..(Len(inflight.log) - number_of_shards + 1) :
          {inflight.log[k + i] : i \in 0..(number_of_shards - 1)} = Peers

\* C28 witness: one call is sending to the shard it selected while another
\* has been called and waits for the lock, after N + 1 selections.
C28_witness ==
    /\ Len(inflight.log) = number_of_shards + 1
    /\ \E a, b \in Clients :
          /\ inflight.rr[a].pc = "sending"
          /\ inflight.rr[b].pc = "called"

\* The requests the master broadcasts in the properties of the broadcast.
BroadcastRequests == {Request(<<Col("x")>>, <<>>), Request(<<Fn("count", "x")>>, <<>>)}

\* C29: a broadcast reaches every peer once and waits for all of them; it
\* returns one response per peer, in peer order, when every call succeeded,
\* and an error without any response when some call failed.
C29_broadcast_all_or_nothing ==
    /\ []\A request \in BroadcastRequests : \A results \in PeerResponses(disk, request) :
            LET r == Shards_broadcast(results)
            IN  /\ r.ok <=> \A p \in Peers : results[p].kind # "Panic"
                /\ r.ok => /\ Len(r.responses) = NPeers
                           /\ \A p \in Peers : r.responses[p] = results[p]
                /\ ~r.ok => r.responses = <<>>
    /\ [][(last'.op = "query" /\ last'.node = Master)
            => \A p \in Peers :
                  disk'[p] = table_query_future(disk[p], <<Col("x")>>, <<>>).t]_vars

\* C29 witness: the master served a query while one peer held a row and
\* answered and another held none and failed.
C29_witness ==
    /\ last.op = "query" /\ last.node = Master
    /\ \E results \in PeerResponses(disk, Request(<<Col("x")>>, <<>>)) :
          \E p, q \in Peers : results[p].kind = "WithData" /\ results[q].kind = "Panic"
    /\ \E n \in Nodes : Len(disk[n].index) >= 2

(***************************************************************************)
(* Concurrent inserts into the table of one node (api.rs 406-414).  Every  *)
(* request opens and loads the table into a Table of its own, whose        *)
(* TableStats it keeps in memory, and then inserts its rows one by one;    *)
(* the requests of different clients interleave between the rows.          *)
(***************************************************************************)
\* The rows requested and not yet inserted.
PendingRows == LET RECURSIVE Sum(_)
                   Sum(c) == IF c > NClients THEN 0 ELSE inflight.ins[c].rows + Sum(c + 1)
               IN  Sum(1)

\* api.rs 409-410: open and load; the request is for `rows` rows of x.
InsertLoad(c, rows) ==
    /\ inflight.ins[c].pc = "idle"
    /\ TableDefinition_open(disk[0]).ok
    /\ Len(disk[0].index) + PendingRows + rows <= MaxInsertRows
    /\ LET h == TableDefinition_load(disk[0])
       IN  /\ disk' = [disk EXCEPT ![0] = h.t]
           /\ inflight' = [inflight EXCEPT !.ins[c] =
                  [pc |-> "loaded", row_count |-> h.row_count,
                   next_index |-> h.next_index, rows |-> rows]]
    /\ UNCHANGED <<next_index, last, hist>>

\* table.rs 200-221: one turn of the loop over the rows, with the counters
\* of the request's own TableStats.
InsertRow(c, value) ==
    /\ inflight.ins[c].pc = "loaded"
    /\ inflight.ins[c].rows > 0
    /\ LET h == [t |-> disk[0], row_count |-> inflight.ins[c].row_count,
                 next_index |-> inflight.ins[c].next_index]
           r == InsertRowValues(TableIndex_append(h, 1), 1,
                                <<Column("x", "Integer")>>, <<value>>, 1)
           done == TableStats_increment(r.h)
       IN  /\ disk' = [disk EXCEPT ![0] = done.t]
           /\ inflight' = [inflight EXCEPT !.ins[c] =
                  [pc |-> "loaded", row_count |-> done.row_count,
                   next_index |-> done.next_index, rows |-> @.rows - 1]]
    /\ UNCHANGED <<next_index, last, hist>>

\* table.rs 224, api.rs 420-423: the insert returns Ok.
InsertDone(c) ==
    /\ inflight.ins[c].pc = "loaded"
    /\ inflight.ins[c].rows = 0
    /\ inflight' = [inflight EXCEPT !.ins[c] =
           [pc |-> "idle", row_count |-> 0, next_index |-> 0, rows |-> 0]]
    /\ last' = Last("insert", 0, "Ok", "Ok")
    /\ hist' = NoHist
    /\ UNCHANGED <<disk, next_index>>

NextInserts ==
    \/ CreateTable(0)
    \/ \E c \in Clients : \E rows \in 1..MaxBatch : InsertLoad(c, rows)
    \/ \E c \in Clients : \E value \in {JInt(i) : i \in 1..MaxInt} : InsertRow(c, value)
    \/ \E c \in Clients : InsertDone(c)

SpecInserts == Init /\ [][NextInserts]_vars

\* C30: once the concurrent insert requests have returned, the table is in
\* a state a serial execution produces: the index entries carry distinct
\* row-ids and the persisted row_count is their number.
C30_inserts_serialized ==
    (\A c \in Clients : inflight.ins[c].pc = "idle")
    => /\ Cardinality(IndexIds(disk[0])) = Len(disk[0].index)
       /\ PersistedStats(disk[0].stats).row_count = Len(disk[0].index)

(***************************************************************************)
(* Table::insert write by write: one insert request at a time on one node, *)
(* each action one write to a file (or the return of the call).            *)
(***************************************************************************)
StepColumns == {<<"x">>, <<"c", "x">>}

StepValuesFor(name) ==
    IF name = "c" THEN {JStr(<<"r">>)} ELSE {JInt(1), JInt(2), JStr(<<"r">>)}

StepRowsFor(names) ==
    {row \in [1..Len(names) -> UNION {StepValuesFor(names[i]) : i \in 1..Len(names)}] :
        \A i \in 1..Len(names) : row[i] \in StepValuesFor(names[i])}

\* The table handle of the call under way.
StepHandle ==
    [t |-> disk[0], row_count |-> inflight.row.row_count,
     next_index |-> inflight.row.next_index]

\* api.rs 409-410, table.rs 190-197: open, load, resolve the columns, take
\* the timestamp.
StepLoad(names, values) ==
    /\ inflight.row.pc = "idle"
    /\ TableDefinition_open(disk[0]).ok
    /\ ColumnsValid(disk[0].columns, names)
    /\ LET h == TableDefinition_load(disk[0])
       IN  /\ disk' = [disk EXCEPT ![0] = h.t]
           /\ inflight' = [inflight EXCEPT !.row =
                  [NoInsert EXCEPT !.pc = "row", !.row_count = h.row_count,
                       !.next_index = h.next_index,
                       !.columns = parse_and_validate_columns(h.t.columns, names),
                       !.values = values, !.i = 1,
                       !.timestamp = Len(disk[0].index) + 1, !.start = h.t]]
    /\ UNCHANGED <<next_index, last, hist>>

\* table.rs 200-209: the head of the loop over the rows, and the index entry.
StepIndex ==
    /\ inflight.row.pc = "row"
    /\ LET row == inflight.row
       IN  IF row.i > Len(row.values)
           THEN /\ inflight' = [inflight EXCEPT !.row.pc = "done"]
                /\ UNCHANGED disk
           ELSE IF Len(row.values[row.i]) # Len(row.columns)
           THEN /\ inflight' = [inflight EXCEPT !.row.pc = "done",
                                    !.row.kind = "InvalidData", !.row.why = "RowArity"]
                /\ UNCHANGED disk
           ELSE /\ disk' = [disk EXCEPT ![0] = TableIndex_append(StepHandle, row.timestamp).t]
                /\ inflight' = [inflight EXCEPT !.row.pc = "values", !.row.j = 1]
    /\ UNCHANGED <<next_index, last, hist>>

\* table.rs 211-218: one turn of the loop over the values of the row.
StepValue ==
    /\ inflight.row.pc = "values"
    /\ LET row == inflight.row
       IN  IF row.j > Len(row.columns)
           THEN /\ inflight' = [inflight EXCEPT !.row.pc = "stats"]
                /\ UNCHANGED disk
           ELSE LET r == insert_value(StepHandle, row.timestamp, row.columns[row.j],
                                      row.values[row.i][row.j])
                IN  /\ disk' = [disk EXCEPT ![0] = r.h.t]
                    /\ inflight' =
                          IF r.ok THEN [inflight EXCEPT !.row.j = @ + 1]
                          ELSE [inflight EXCEPT !.row.pc = "done",
                                    !.row.kind = r.kind, !.row.why = r.why]
    /\ UNCHANGED <<next_index, last, hist>>

\* table.rs 221: the stats of the row.
StepStats ==
    /\ inflight.row.pc = "stats"
    /\ LET h == TableStats_increment(StepHandle)
       IN  /\ disk' = [disk EXCEPT ![0] = h.t]
           /\ inflight' = [inflight EXCEPT !.row.pc = "row", !.row.i = @ + 1,
                               !.row.row_count = h.row_count,
                               !.row.next_index = h.next_index]
    /\ UNCHANGED <<next_index, last, hist>>

\* table.rs 207, 217, 224, api.rs 420-431: the call returns.
StepReturn ==
    /\ inflight.row.pc = "done"
    /\ inflight' = [inflight EXCEPT !.row = NoInsert]
    /\ last' = Last("insert", 0, inflight.row.kind, inflight.row.why)
    /\ hist' = NoHist
    /\ UNCHANGED <<disk, next_index>>

NextSteps ==
    \/ /\ inflight.row.pc = "idle"
       /\ CreateTable(0)
    \/ \E names \in StepColumns : \E values \in SeqsUpTo(StepRowsFor(names), MaxBatch) :
          /\ Len(disk[0].index) + Len(values) <= MaxStepRows
          /\ StepLoad(names, values)
    \/ StepIndex
    \/ StepValue
    \/ StepStats
    \/ StepReturn

SpecSteps == Init /\ [][NextSteps]_vars

\* The payload insert_value writes for a value of the column's type.
Encoded(value) == IF value.j = "str" THEN StringBytes(value.s) ELSE I64Bytes(value.num)

\* The entries a successful call appends to the file of its j-th column.
EntriesOf(row, j) ==
    [k \in 1..Len(row.values) |->
        [index_id |-> PersistedStats(row.start.stats).next_index + k - 1,
         timestamp |-> row.timestamp, data |-> Encoded(row.values[k][j])]]

\* C31: when an insert call has succeeded, the index holds, after the
\* entries it held when the table was loaded, one entry per row of the
\* request with the row-ids next_row_id, next_row_id + 1, ... counted from
\* the next_row_id read at load, and the file of every supplied column
\* holds, after its old entries, the values of the rows in input order with
\* those row-ids.
C31_rows_in_input_order ==
    LET row == inflight.row
    IN  (row.pc = "done" /\ row.kind = "Ok")
        => /\ disk[0].index = row.start.index \o
                 [k \in 1..Len(row.values) |->
                     [index_id |-> PersistedStats(row.start.stats).next_index + k - 1,
                      timestamp |-> row.timestamp]]
           /\ \A j \in 1..Len(row.columns) :
                 disk[0].data[row.columns[j]]
                    = row.start.data[row.columns[j]] \o EntriesOf(row, j)
           /\ \A c \in SchemaColumns :
                 (\A j \in 1..Len(row.columns) : row.columns[j] # c)
                 => disk[0].data[c] = row.start.data[c]

\* C31 witness: a call with two different rows succeeded on a table that
\* already held index entries and whose next_row_id was not 0.
C31_witness ==
    LET row == inflight.row
    IN  /\ row.pc = "done" /\ row.kind = "Ok"
        /\ Len(row.values) = 2
        /\ row.values[1] # row.values[2]
        /\ Len(row.start.index) >= 1
        /\ PersistedStats(row.start.stats).next_index >= 1

\* Since the table was loaded by the call under way: the index entries
\* appended, the entries appended to the file of its j-th column, and the
\* rows whose stats were persisted.
IndexWritten == Len(disk[0].index) - Len(inflight.row.start.index)
ColumnWritten(j) ==
    Len(disk[0].data[inflight.row.columns[j]])
       - Len(inflight.row.start.data[inflight.row.columns[j]])
StatsWritten ==
    PersistedStats(disk[0].stats).row_count
       - PersistedStats(inflight.row.start.stats).row_count

\* C32: at every point of an insert call, a row's index entry is written
\* before its column entries, its column entries are written in the order
\* of the supplied column list, and its stats are persisted after all of
\* them, one row at a time; the index entry carries the next_row_id, every
\* column entry of the row carries the row-id and the timestamp of the
\* row's index entry, and the persisted row_count and next_row_id both grow
\* by one per completed row.
C32_write_order ==
    LET row == inflight.row
        n == Len(row.columns)
    IN  row.pc # "idle"
        => /\ IndexWritten <= StatsWritten + 1
           /\ n > 0 => ColumnWritten(1) <= IndexWritten
           /\ \A j \in 2..n : ColumnWritten(j) <= ColumnWritten(j - 1)
           /\ StatsWritten <= IF n > 0 THEN ColumnWritten(n) ELSE IndexWritten
           /\ PersistedStats(disk[0].stats).next_index
                 = PersistedStats(row.start.stats).next_index + StatsWritten
           /\ \A k \in 1..IndexWritten :
                 /\ disk[0].index[Len(row.start.index) + k].index_id
                       = PersistedStats(row.start.stats).next_index + k - 1
                 /\ \A j \in 1..n : k <= ColumnWritten(j) =>
                       LET entry == disk[0].data[row.columns[j]]
                                       [Len(row.start.data[row.columns[j]]) + k]
                       IN  /\ entry.index_id = disk[0].index[Len(row.start.index) + k].index_id
                           /\ entry.timestamp = disk[0].index[Len(row.start.index) + k].timestamp

\* C32 witness: in the second row of a call for two columns, the index
\* entry and the first column's entry are written, the second column's
\* entry and the stats of the row are not.
C32_witness ==
    /\ inflight.row.pc = "values"
    /\ Len(inflight.row.columns) = 2
    /\ IndexWritten = 2
    /\ ColumnWritten(1) = 2
    /\ ColumnWritten(2) = 1
    /\ StatsWritten = 1

(***************************************************************************)
(* Partial aggregates: the table on two nodes, single-row inserts into x,  *)
(* into c or into both served by either node, and aggregate queries.  A    *)
(* row inserted into c alone has no entry in x's file: when a later row of *)
(* the node has one, the plain scan reads Null for x in that row.          *)
(***************************************************************************)
AggNodes == {0, 1}

AggInserts ==
    {[names |-> <<"x">>, row |-> <<JInt(1)>>], [names |-> <<"x">>, row |-> <<JInt(2)>>],
     [names |-> <<"c">>, row |-> <<JStr(<<"r">>)>>],
     [names |-> <<"c", "x">>, row |-> <<JStr(<<"b">>), JInt(2)>>]}

AggRequests ==
    {Request(<<Fn("count", "x")>>, <<>>), Request(<<Fn("sum", "x")>>, <<>>),
     Request(<<Fn("avg", "x")>>, <<>>),
     Request(<<Fn("count", "x"), Fn("sum", "x"), Fn("avg", "x")>>, <<>>),
     Request(<<Col("c"), Fn("count", "x"), Fn("sum", "x")>>, <<"c">>),
     Request(<<Col("c"), Fn("avg", "x")>>, <<"c">>)}

NextAgg ==
    \/ \E n \in AggNodes : CreateTable(n)
    \/ \E n \in AggNodes : \E insert \in AggInserts :
          /\ Len(disk[0].index) + Len(disk[1].index) < MaxAggRows
          /\ Insert(n, insert.names, <<insert.row>>, Len(disk[n].index) + 1)
    \/ Query(0, Request(<<Col("c"), Fn("avg", "x")>>, <<"c">>))

SpecAgg == Init /\ [][NextAgg]_vars

\* The aggregated rows a node computes for a request (none when its query
\* fails).
Partials(n, request) ==
    LET result == Table_query(disk[n], request.select, request.group_by)
    IN  IF result.ok /\ result.variant = "AggregatedRows" THEN result.aggregated ELSE {}

\* v is the sum of the numbers a and b.
IsSumOf(v, a, b) ==
    /\ v.ty = (IF a.ty = "Integer" /\ b.ty = "Integer" THEN "Integer" ELSE "Float")
    /\ v.num * a.den * b.den = (a.num * b.den + b.num * a.den) * v.den

\* Component by component, v is a + b; a sum that is Null on either side is
\* Null.
Additive(v, a, b) ==
    /\ Len(v) = Len(a)
    /\ \A k \in 1..Len(a) :
          IF a[k].ty = "Null" \/ b[k].ty = "Null" THEN v[k].ty = "Null"
          ELSE IsSumOf(v[k], a[k], b[k])

FoldValues == {IntegerValue(1), IntegerValue(2), NullValue}

\* C33: merging the partial aggregates two nodes hold for the same group
\* adds them component by component (the count of the one to the count of
\* the other, the sum to the sum, and both for avg), whereas folding one
\* row value into a partial aggregate adds exactly 1 to its count.
C33_merge_is_additive ==
    \A request \in AggRequests :
        /\ \A l \in Partials(0, request) : \A r \in Partials(1, request) :
              l.values = r.values
              => \E m \in merge_aggregated_rows(Partials(0, request), Partials(1, request)) :
                    /\ m.values = l.values
                    /\ \A i \in 1..Len(l.aggregates) :
                          Additive(m.aggregates[i].components, l.aggregates[i].components,
                                   r.aggregates[i].components)
        /\ \A n \in AggNodes : \A l \in Partials(n, request) :
              \A i \in 1..Len(l.aggregates) : \A value \in FoldValues :
                 LET before == AggregateComponents_from_components_array(
                                   l.aggregates[i].column, l.aggregates[i].components)
                     after == AggregateComponents_aggregate(before, value)
                 IN  before.variant \in {"Count", "Avg"}
                     => IsSumOf(after.count, before.count, IntegerValue(1))

\* C33 witness: both nodes hold rows of x, the second node two of them, and
\* the merged answer for count, sum and avg carries count 3.
C33_witness ==
    /\ Len(disk[0].data[Column("x", "Integer")]) = 1
    /\ Len(disk[1].data[Column("x", "Integer")]) = 2
    /\ LET request == Request(<<Fn("count", "x"), Fn("sum", "x"), Fn("avg", "x")>>, <<>>)
       IN  \E m \in merge_aggregated_rows(Partials(0, request), Partials(1, request)) :
              /\ m.aggregates[1].components = <<IntegerValue(3)>>
              /\ m.aggregates[3].components[2] = FloatValue(3, 1)

\* C34: the aggregated rows a node computed, serialized as its response
\* (whichever row comes first) and converted back by the master, have the
\* same group keys and, in every aggregate, the same component state.
C34_components_round_trip ==
    \A request \in AggRequests : \A n \in AggNodes :
        \A first_row \in Partials(n, request) :
            LET received == to_query_result(
                    serialize_aggregated_rows(Partials(n, request), first_row)).aggregated
            IN  \A p \in Partials(n, request) :
                    \E q \in received :
                        /\ {q.values[i] : i \in 1..Len(q.values)}
                              = {p.values[i] : i \in 1..Len(p.values)}
                        /\ Len(q.aggregates) = Len(p.aggregates)
                        /\ \A i \in 1..Len(p.aggregates) :
                              GroupValue_from_aggregates(q.aggregates)[i].components
                                 = GroupValue_from_aggregates(p.aggregates)[i].components

\* C35: count(x) without grouping is the number of index entries of the
\* table, the rows for which x has no entry included.
C35_count_counts_null_rows ==
    \A n \in AggNodes :
        (disk[n].exists /\ Len(disk[n].index) >= 1)
        => LET result == Table_query(disk[n], <<Fn("count", "x")>>, <<>>)
           IN  /\ result.ok
               /\ result.variant = "AggregatedRows"
               /\ \E row \in result.aggregated :
                     /\ result.aggregated = {row}
                     /\ row.aggregates[1].value = IntegerValue(Len(disk[n].index))

(***************************************************************************)
(* Table::query_values read by read: one scan at a time over the table of  *)
(* node 0, each action one read of a cursor with what the loop does on it. *)
(* The table is built by single-row inserts, one of which fails after      *)
(* writing x (a number offered to c) and leaves its entries behind.        *)
(***************************************************************************)
ScanInserts ==
    {[names |-> <<"x">>, row |-> <<JInt(1)>>],
     [names |-> <<"c">>, row |-> <<JStr(<<"r">>)>>],
     [names |-> <<"c", "x">>, row |-> <<JStr(<<"r">>), JInt(2)>>],
     [names |-> <<"x", "c">>, row |-> <<JInt(1), JInt(1)>>]}

ScanSelects == {<<"x">>, <<"c">>, <<"c", "x">>}

\* table.rs 259-266: the cursors are created at position 0.
ScanStart(names) ==
    /\ inflight.scan.pc = "idle"
    /\ TableDefinition_open(disk[0]).ok
    /\ inflight' = [inflight EXCEPT !.scan =
           [NoScan EXCEPT !.pc = "index",
                !.columns = parse_and_validate_columns(disk[0].columns, names),
                !.positions = [j \in 1..Len(names) |-> 0]]]
    /\ UNCHANGED <<disk, next_index, last, hist>>

\* table.rs 267: the read of the index cursor; the loop ends when it fails.
ScanIndex ==
    /\ inflight.scan.pc = "index"
    /\ inflight' =
          IF inflight.scan.index >= Len(disk[0].index)
          THEN [inflight EXCEPT !.scan.pc = "done"]
          ELSE [inflight EXCEPT !.scan.pc = "column", !.scan.i = 1, !.scan.values = <<>>]
    /\ UNCHANGED <<disk, next_index, last, hist>>

\* table.rs 276-298: one turn of the loop of the column cursor i for the
\* index entry the index cursor is at.
ScanColumn ==
    /\ inflight.scan.pc = "column"
    /\ inflight.scan.i <= Len(inflight.scan.columns)
    /\ LET scan == inflight.scan
           column == scan.columns[scan.i]
           file == disk[0].data[column]
           position == scan.positions[scan.i]
           I == disk[0].index[scan.index + 1]
       IN  inflight' =
              IF position >= Len(file)
              THEN [inflight EXCEPT !.scan.pc = "done", !.scan.ok = FALSE, !.scan.rows = <<>>]
              ELSE LET E == file[position + 1]
                   IN  IF same_row(E, I)
                       THEN [inflight EXCEPT
                                !.scan.values = Append(@, [column |-> column,
                                                           value |-> FromDisk(column.ty, E.data)]),
                                !.scan.positions[scan.i] = Cursor_advance(position),
                                !.scan.i = @ + 1]
                       ELSE IF E.index_id > I.index_id
                       THEN [inflight EXCEPT
                                !.scan.values = Append(@, [column |-> column, value |-> NullValue]),
                                !.scan.i = @ + 1]
                       ELSE [inflight EXCEPT
                                !.scan.positions[scan.i] = Cursor_advance(position)]
    /\ UNCHANGED <<disk, next_index, last, hist>>

\* table.rs 301-312: the row is built and the index cursor advances.
ScanRow ==
    /\ inflight.scan.pc = "column"
    /\ inflight.scan.i > Len(inflight.scan.columns)
    /\ LET scan == inflight.scan
           I == disk[0].index[scan.index + 1]
       IN  inflight' = [inflight EXCEPT
               !.scan.pc = "index",
               !.scan.rows = Append(@, Row(I.index_id, I.timestamp, scan.values)),
               !.scan.index = Cursor_advance(@)]
    /\ UNCHANGED <<disk, next_index, last, hist>>

\* table.rs 277, 314: query_values returns.
ScanReturn ==
    /\ inflight.scan.pc = "done"
    /\ inflight' = [inflight EXCEPT !.scan = NoScan]
    /\ last' = Last("query", 0, IF inflight.scan.ok THEN "Ok" ELSE "Err", "Ok")
    /\ UNCHANGED <<disk, next_index, hist>>

ScanStep == ScanIndex \/ ScanColumn \/ ScanRow \/ ScanReturn

NextScan ==
    \/ /\ inflight.scan.pc = "idle"
       /\ CreateTable(0)
    \/ \E insert \in ScanInserts :
          /\ inflight.scan.pc = "idle"
          /\ Len(disk[0].index) < MaxScanRows
          /\ Insert(0, insert.names, <<insert.row>>, Len(disk[0].index) + 1)
    \/ \E names \in ScanSelects : ScanStart(names)
    \/ ScanIndex
    \/ ScanColumn
    \/ ScanRow
    \/ ScanReturn

\* The task that serves a query keeps running until it returns.
SpecScan == Init /\ [][NextScan]_vars /\ WF_vars(ScanStep)

\* C36: every scan of query_values that was started returns; while it runs
\* no cursor position moves backwards, and the index cursor is never past
\* the end of the index file.
C36_scan_terminates ==
    /\ (inflight.scan.pc # "idle") ~> (inflight.scan.pc = "idle")
    /\ [][inflight.scan.pc # "idle" /\ inflight'.scan.pc # "idle"
          => /\ inflight'.scan.index >= inflight.scan.index
             /\ inflight'.scan.index <= Len(disk[0].index)
             /\ \A j \in 1..Len(inflight.scan.columns) :
                   /\ inflight'.scan.positions[j] >= inflight.scan.positions[j]
                   /\ inflight'.scan.positions[j]
                         <= Len(disk[0].data[inflight.scan.columns[j]])]_vars

\* C36 witness: a scan over three index entries ended at the end of the
\* index file with the rows query_values returns, one of them with a Null,
\* after a column cursor stepped over an entry that matched no index entry
\* (the entry of an insert that reused the row-id of a failed one).
C36_witness ==
    LET scan == inflight.scan
    IN  /\ scan.pc = "done" /\ scan.ok
        /\ scan.index = 3
        /\ scan.rows = query_values(disk[0], scan.columns).rows
        /\ \E j \in 1..Len(scan.columns) :
              /\ \E k \in 1..3 : scan.rows[k].values[j].value = NullValue
              /\ scan.positions[j]
                    > Cardinality({k \in 1..3 : scan.rows[k].values[j].value # NullValue})

\* The request for the count and the sum of x, and the values of x in the
\* rows of node n's scan.
CountAndSum == Request(<<Fn("count", "x"), Fn("sum", "x")>>, <<>>)
ScannedX(n) ==
    LET r == query_values(disk[n], <<Column("x", "Integer")>>)
    IN  [k \in 1..Len(r.rows) |-> r.rows[k].values[1].value]

\* The partial aggregates of node n as the master receives them.
Received(n, request) ==
    UNION {to_query_result(serialize_aggregated_rows(Partials(n, request), first_row)).aggregated
              : first_row \in Partials(n, request)}

\* C37: when a row without a value for x was folded, the node's sum(x) is
\* Null whatever values were folded before or after it, folding one more
\* value keeps it Null, and the merge with the partial sum of the other
\* node, taken directly or as received over the wire, is Null; count(x) is
\* the Integer number of rows, and the merged count the Integer sum of the
\* two counts.
C37_null_absorbs_sum ==
    /\ \A n \in AggNodes : \A l \in Partials(n, CountAndSum) :
          (\E k \in 1..Len(ScannedX(n)) : ScannedX(n)[k] = NullValue)
          => /\ l.aggregates[2].value = NullValue
             /\ l.aggregates[2].components = <<NullValue>>
             /\ l.aggregates[1].value = IntegerValue(Len(ScannedX(n)))
             /\ \A value \in FoldValues :
                   AggregateComponents_aggregate(
                       AggregateComponents_from_components_array(
                           l.aggregates[2].column, l.aggregates[2].components), value).sum
                      = NullValue
    /\ \A l \in Partials(0, CountAndSum) :
          \A r \in Partials(1, CountAndSum) \cup Received(1, CountAndSum) :
              (l.aggregates[2].value = NullValue \/ r.aggregates[2].value = NullValue)
              => \A m \in merge_aggregated_rows({l}, {r}) \cup merge_aggregated_rows({r}, {l}) :
                    /\ m.aggregates[2].value = NullValue
                    /\ m.aggregates[1].value
                          = IntegerValue(l.aggregates[1].value.num + r.aggregates[1].value.num)

\* C37 witness: node 0 scanned a row without x and then a row with x, node
\* 1 holds the sum of one row, and the merged answer is count 3, sum Null.
C37_witness ==
    /\ Len(ScannedX(0)) = 2
    /\ ScannedX(0)[1] = NullValue
    /\ ScannedX(0)[2] # NullValue
    /\ \E r \in Received(1, CountAndSum) : r.aggregates[2].value.ty = "Integer"
    /\ \E m \in merge_aggregated_rows(Partials(0, CountAndSum), Received(1, CountAndSum)) :
          /\ m.aggregates[1].value = IntegerValue(3)
          /\ m.aggregates[2].value = NullValue

\* C38: an insert request with no rows is served alike by the master and
\* by a node without shards: the handler answers with the success status,
\* no node's files change and no request goes to a peer; and
\* InsertRequest::split returns for every number of rows from 0 on and every
\* n from 1 on.
C38_empty_insert_succeeds ==
    [][\A timestamp \in Timestamps :
          ((\A n \in Nodes : disk[n].exists) /\ api_insert(<<>>, timestamp))
          => /\ last'.kind = "Ok" /\ last'.peers = "Ok"
             /\ next_index' = next_index
             /\ \A n \in Nodes :
                   disk'[n].index = disk[n].index /\ disk'[n].data = disk[n].data
             /\ \A p \in Peers :
                   LET r == table_insert_future(disk[p], <<"x">>, <<>>, timestamp)
                   IN  r.ok /\ r.t.index = disk[p].index /\ r.t.data = disk[p].data
             /\ \A values \in SeqsUpTo(ShardRows, MaxBatch) :
                   \A n \in 1..(number_of_shards + 1) : InsertRequest_split(values, n).ok]_vars

\* Function names as a select token can spell them: the three aggregates in
\* lower, upper and capitalised letters, and names of no aggregate.
Spellings(function) ==
    CASE function = "count" -> {"count", "COUNT", "Count"}
      [] function = "sum" -> {"sum", "SUM", "Sum"}
      [] OTHER -> {"avg", "AVG", "Avg"}
UnknownFunctions == {"max", "MAX", "median"}

\* C39: a select token FN(x) is answered as fn(x) whatever the letter case
\* of FN, and a token whose function is none of count, sum and avg is
\* accepted wherever count(x) is and answered exactly as count(x), with and
\* without the token of c and the grouping by c.
C39_unknown_function_is_count ==
    \A with_c \in BOOLEAN :
        LET select(function) ==
                IF with_c THEN <<Col("c"), Fn(function, "x")>> ELSE <<Fn(function, "x")>>
            group_by == IF with_c THEN <<"c">> ELSE <<>>
        IN  /\ \A function \in {"count", "sum", "avg"} : \A spelling \in Spellings(function) :
                  /\ try_parse_queried_column(Fn(spelling, "x")).aggregate
                        = Aggregate_from(function)
                  /\ api_query(disk[0], Request(select(spelling), group_by))
                        = api_query(disk[0], Request(select(function), group_by))
            /\ \A unknown \in UnknownFunctions :
                  /\ try_parse_queried_column(Fn(unknown, "x")).is_aggregate
                  /\ try_parse_queried_column(Fn(unknown, "x")).aggregate = "Count"
                  /\ Table_query(disk[0], select(unknown), group_by)
                        = Table_query(disk[0], select("count"), group_by)
                  /\ api_query(disk[0], Request(select(unknown), group_by))
                        = api_query(disk[0], Request(select("count"), group_by))

\* C39 witness: x holds two values whose count and sum differ, SUM(x) is
\* answered with their sum and MAX(x) with their count.
C39_witness ==
    /\ Len(disk[0].index) = 2
    /\ Len(disk[0].data[Column("x", "Integer")]) = 2
    /\ \E response \in api_query(disk[0], Request(<<Fn("MAX", "x")>>, <<>>)) :
          /\ response.kind = "WithAggregatedData"
          /\ AggregateValues(response) = <<JInt(2)>>
    /\ \E response \in api_query(disk[0], Request(<<Fn("SUM", "x")>>, <<>>)) :
          /\ response.kind = "WithAggregatedData"
          /\ AggregateValues(response) # <<JInt(2)>>

====
